---- MODULE Spec2Model ----
(***************************************************************************)
(* State-machine model of octo_flex_view.                                  *)
(*                                                                         *)
(* Part 1  ObjectManager / Layer (src/src/object_manager.cpp,              *)
(*         src/src/layer.cpp): the scene containers and their mutexes,     *)
(*         driven by several caller threads.                               *)
(***************************************************************************)
EXTENDS Integers, Sequences, FiniteSets, TLC

(***************************************************************************)
(* Bounds of the model.                                                    *)
(***************************************************************************)
\* Cap on the total number of entries waiting in the layers' outdated lists.
MaxOutdated == 2

(***************************************************************************)
(* Values.                                                                 *)
(***************************************************************************)
\* Caller threads of the ObjectManager (application threads and the render thread).
Threads == {"t1", "t2"}
\* Layer identifiers.
LayerIds == {"L1", "L2"}
\* Object::Ptr values: three distinct objects and the null pointer.
Null == "null"
ObjPtrs == {"o1", "o2", "o3"}
\* Object::id() of each object; o1 and o2 are two objects with the same ID.
ObjectIds == {"a", "b"}
IdOf(o) == IF o = "o3" THEN "b" ELSE "a"
\* The (object, layer) pairs handed to submit.
Submissions == { <<"o1", "L1">>, <<"o2", "L1">>, <<"o3", "L1">>, <<"o3", "L2">>, <<Null, "L2">> }
\* The (vector, layer) pairs handed to submitLayer / setLayer.
LayerSubmissions == { << <<>>, "L1" >>, << <<"o1", "o3">>, "L1" >>,
                      << <<Null, "o1", "o2">>, "L1" >>, << <<"o3">>, "L2" >> }
\* An ObjectList (map from object ID to Object::Ptr); Null marks an absent key.
EmptyObjects == [k \in ObjectIds |-> Null]
NoCall == [op |-> "none", obj |-> Null, layer |-> "L1", vec |-> <<>>, id |-> "a"]

VARIABLES
    layers_,            \* ObjectManager::layers_  : the layer IDs present in the map
    mtx_,               \* ObjectManager::mtx_     : TRUE while locked
    objects_,           \* Layer::objects_         : per layer, object ID -> Object::Ptr
    outdated_objects_,  \* Layer::outdated_objects_: per layer, sequence of Object::Ptr
    lmtx,               \* Layer::mtx_             : per layer, TRUE while locked
    editable,           \* Object::editable_       : the objects still editable
    committed,          \* per layer, objects_ as left by the last completed critical section
    pc,                 \* per thread, position in the running call
    call,               \* per thread, arguments of the running call
    todo,               \* per thread, layers still to visit by the range-for over layers_
    cur,                \* per thread, layer whose Layer method is running
    idx,                \* per thread, loop index into the vector of setObjects
    acc                 \* per thread, all_outdated of clearOutdatedObjects

omVars == << layers_, mtx_, objects_, outdated_objects_, lmtx, editable,
             committed, pc, call, todo, cur, idx, acc >>

VARIABLES
    recordingActive_,   \* RecordingThread::recordingActive_
    shouldStop_,        \* RecordingThread::shouldStop_
    frameQueue_,        \* RecordingThread::frameQueue_
    queueMutex_,        \* RecordingThread::queueMutex_ : TRUE while locked
    recorder_,          \* RecordingThread::recorder_ : Null or "recorder"
    lastError_,         \* RecordingThread::lastError_ : "" or the kind of error
    started_,           \* VideoRecorder::started_
    processRunning,     \* VideoRecorder::process_->state() == QProcess::Running
    cpc,                \* position of the calling thread
    wpc,                \* position of the worker thread (QThread)
    frame,              \* the argument of the running queueFrame call
    wframe,             \* processFrames' local variable frame
    nextFrame,          \* number of the next frame the caller captures
    startCalled,        \* startRecording has been called on this object
    almostFull,         \* queueAlmostFull has been emitted
    accepted,           \* frames for which queueFrame returned true, in call order
    rejected,           \* frames for which queueFrame returned false
    written,            \* frames VideoRecorder::writeFrame wrote, in order
    dropped,            \* frames taken out of the queue without being written
    startRet,           \* result of startRecording ("none" before it returns)
    stopRet             \* result of the last stopRecording since startRecording ("none" before one returns)

recVars == << recordingActive_, shouldStop_, frameQueue_, queueMutex_, recorder_, lastError_,
              started_, processRunning, cpc, wpc, frame, wframe, nextFrame, startCalled,
              almostFull, accepted, rejected, written, dropped, startRet, stopRet >>

VARIABLES
    viewerCreated,        \* createEmbedded has run
    container,            \* EmbeddedViewer::Impl::container is not null
    obj_manager,          \* EmbeddedViewer::Impl::obj_manager is not null
    views_,               \* OctoFlexViewContainer::views_
    viewIdCounter_,       \* OctoFlexViewContainer::viewIdCounter_
    currentView_,         \* OctoFlexViewContainer::currentView_
    focusView,            \* the view holding the keyboard focus, or NoView
    unvisable_layers_,    \* per view, OctoFlexView::unvisable_layers_
    unselectable_layers_, \* per view, OctoFlexView::unselectable_layers_
    selectedObjects_,     \* per view, OctoFlexView::selectedObjects_
    exportRet,            \* vector returned by the last exportSelectedObjectIds
    ignoredHit            \* the last pick changed the selection while an object of a
                          \* hidden or unselectable layer was under the cursor

viewVars == << viewerCreated, container, obj_manager, views_, viewIdCounter_, currentView_,
               focusView, unvisable_layers_, unselectable_layers_, selectedObjects_,
               exportRet, ignoredHit >>

VARIABLES
    uploadQueue_,     \* TextureManager::uploadQueue_ : sequence of shapes
    mutex_,           \* TextureManager::mutex_       : TRUE while locked
    readyTextures_,   \* TextureManager::readyTextures_, a texture named by its quad
    shouldQuit_,      \* TextureManager::shouldQuit_
    initialized_,     \* TextureManager::initialized_
    tpc,              \* per client thread, position in queueTextureForUpload
    targ,             \* per client thread, the shape argument of the running call
    tsnap,            \* per client thread, the queue as the running enqueue found it
    texWorker,        \* position of TextureManager::run
    texturedQuad,     \* run's local texturedQuad, Null when empty
    queueSizeRet,     \* value returned by the last getQueueSize
    enqueued,         \* per shape, completed enqueues
    dequeued,         \* per shape, entries the worker took out of the queue
    erased,           \* per shape, entries cancelTextureUpload erased
    cancelled,        \* shapes cancelled and not handed to queueTextureForUpload since
    cleanupPc         \* position of the thread running TextureManager::cleanup

texVars == << uploadQueue_, mutex_, readyTextures_, shouldQuit_, initialized_, tpc, targ,
              tsnap, texWorker, texturedQuad, queueSizeRet, enqueued, dequeued, erased,
              cancelled, cleanupPc >>

VARIABLES
    object_,                  \* ObjectBuilder::object_ : position_, orientation_, shapes_
    next_shape_position_,     \* ObjectBuilder::next_shape_position_
    next_shape_orientation_,  \* ObjectBuilder::next_shape_orientation_, in quarter turns
    next_shape_scale_,        \* ObjectBuilder::next_shape_scale_, a uniform factor
    pending_textures_,        \* ObjectBuilder::pending_textures_
    pending_transforms_,      \* ObjectBuilder::pending_transforms_
    built,                    \* build() has returned the object
    calls,                    \* number of builder calls made in the chain
    intended,                 \* shape-level transform requested since the last shape-adding call
    lastTransform             \* the last object-level transformation call of the chain

bldVars == << object_, next_shape_position_, next_shape_orientation_, next_shape_scale_,
              pending_textures_, pending_transforms_, built, calls, intended,
              lastTransform >>

VARIABLES
    isRecording_,          \* OctoFlexViewContainer::isRecording_
    isRecordingPaused_,    \* OctoFlexViewContainer::isRecordingPaused_
    lastRecordingError_,   \* OctoFlexViewContainer::lastRecordingError_
    recordingThread_,      \* OctoFlexViewContainer::recordingThread_ is non-null
    embRet,                \* the last recording call on the EmbeddedViewer and its result
    nullDeref              \* a call has dereferenced a null container or object manager

embVars == << isRecording_, isRecordingPaused_, lastRecordingError_, recordingThread_,
              embRet, nullDeref >>

VARIABLES
    isPerspective_,   \* OctoFlexView::isPerspective_, per view
    visible_,         \* InfoPanel::visible_ of the view's infoPanel_, per view
    showGrid_         \* OctoFlexView::showGrid_, per view

settingsVars == << isPerspective_, visible_, showGrid_ >>

VARIABLES
    projectionStack,   \* the GL_PROJECTION matrix stack of the view's context, top last
    modelviewStack,    \* the GL_MODELVIEW matrix stack, top last
    matrixMode,        \* the current glMatrixMode
    renderMode,        \* the current glRenderMode
    nameStack,         \* the GL name stack, top last
    glError,           \* the GL error flag
    gpc,               \* position inside handleSelectionWithGLSelect
    pickHits,          \* hits of the running pick
    pickMode,          \* SelectionMode of the running pick
    depthBefore        \* depths of the two matrix stacks when the last pick began

glVars == << projectionStack, modelviewStack, matrixMode, renderMode, nameStack, glError,
             gpc, pickHits, pickMode, depthBefore >>

VARIABLES
    obj_mgr_,      \* OctoFlexView::obj_mgr_ is non-null
    found,         \* the object IDs for which ObjectManager::findObject returns an object
    pose,          \* per object ID, position / orientation of the object found
    coordSys_,     \* Camera::coordSys_ : type, objectId and pose; type "none" when null
    rollEnabled,   \* the camera's roll flag
    lastCall       \* the last call on the view: its name, its argument, coordSys_ before it

csVars == << obj_mgr_, found, pose, coordSys_, rollEnabled, lastCall >>

\* What the actions of each part leave alone in the other parts.
notOM == << recVars, viewVars, texVars, bldVars, embVars, settingsVars, glVars, csVars >>
notRec == << omVars, viewVars, texVars, bldVars, embVars, settingsVars, glVars, csVars >>
notTex == << omVars, recVars, viewVars, bldVars, embVars, settingsVars, glVars, csVars >>
notBld == << omVars, recVars, viewVars, texVars, embVars, settingsVars, glVars, csVars >>

RECURSIVE SumLen(_, _)
SumLen(f, S) == IF S = {} THEN 0
                ELSE LET x == CHOOSE y \in S : TRUE IN Len(f[x]) + SumLen(f, S \ {x})

OutdatedTotal == SumLen(outdated_objects_, LayerIds)

OMInit ==
    /\ layers_ = {}
    /\ mtx_ = FALSE
    /\ objects_ = [l \in LayerIds |-> EmptyObjects]
    /\ outdated_objects_ = [l \in LayerIds |-> <<>>]
    /\ lmtx = [l \in LayerIds |-> FALSE]
    /\ editable = ObjPtrs
    /\ committed = [l \in LayerIds |-> EmptyObjects]
    /\ pc = [t \in Threads |-> "idle"]
    /\ call = [t \in Threads |-> NoCall]
    /\ todo = [t \in Threads |-> {}]
    /\ cur = [t \in Threads |-> "L1"]
    /\ idx = [t \in Threads |-> 0]
    /\ acc = [t \in Threads |-> <<>>]

\* A call returns: the thread's locals go out of scope.
Return(t) ==
    /\ pc' = [pc EXCEPT ![t] = "idle"]
    /\ call' = [call EXCEPT ![t] = NoCall]
    /\ todo' = [todo EXCEPT ![t] = {}]
    /\ cur' = [cur EXCEPT ![t] = "L1"]
    /\ idx' = [idx EXCEPT ![t] = 0]
    /\ acc' = [acc EXCEPT ![t] = <<>>]

Goto(t, label) == pc' = [pc EXCEPT ![t] = label]

\* The variables of one Layer method's caller that the method does not touch.
OMShared == << layers_, mtx_, objects_, outdated_objects_, lmtx, editable, committed >>
OMLocals == << call, todo, cur, idx, acc >>

SeqToSet(s) == { s[i] : i \in 1..Len(s) }

(***************************************************************************)
(* ObjectManager::submit                                                   *)
(***************************************************************************)
submit(t, obj, layer_id) ==
    /\ pc[t] = "idle"
    /\ OutdatedTotal < MaxOutdated
    /\ IF obj = Null
         THEN /\ Return(t)
              /\ UNCHANGED OMShared
         ELSE /\ editable' = editable \ {obj}
              /\ call' = [call EXCEPT ![t] = [NoCall EXCEPT !.op = "submit", !.obj = obj,
                                                           !.layer = layer_id, !.id = IdOf(obj)]]
              /\ Goto(t, "foal_lock")
              /\ UNCHANGED << layers_, mtx_, objects_, outdated_objects_, lmtx,
                              committed, todo, cur, idx, acc >>
    /\ UNCHANGED notOM

(***************************************************************************)
(* ObjectManager::submitLayer                                              *)
(***************************************************************************)
submitLayer(t, objects, layer_id) ==
    /\ pc[t] = "idle"
    /\ editable' = editable \ (SeqToSet(objects) \ {Null})
    /\ call' = [call EXCEPT ![t] = [NoCall EXCEPT !.op = "submitLayer", !.vec = objects,
                                                 !.layer = layer_id]]
    /\ Goto(t, "foal_lock")
    /\ UNCHANGED << layers_, mtx_, objects_, outdated_objects_, lmtx, committed,
                    todo, cur, idx, acc >>
    /\ UNCHANGED notOM

(***************************************************************************)
(* ObjectManager::findOrAddLayer                                           *)
(***************************************************************************)
findOrAddLayer(t, layer_id) ==
    /\ pc[t] = "idle"
    /\ ~mtx_
    /\ mtx_' = TRUE
    /\ call' = [call EXCEPT ![t] = [NoCall EXCEPT !.op = "findOrAddLayer", !.layer = layer_id]]
    /\ Goto(t, "foal_body")
    /\ UNCHANGED << layers_, objects_, outdated_objects_, lmtx, editable, committed,
                    todo, cur, idx, acc >>
    /\ UNCHANGED notOM


findOrAddLayer_lock(t) ==
    /\ pc[t] = "foal_lock"
    /\ ~mtx_
    /\ mtx_' = TRUE
    /\ Goto(t, "foal_body")
    /\ UNCHANGED << layers_, objects_, outdated_objects_, lmtx, editable, committed,
                    OMLocals >>
    /\ UNCHANGED notOM

findOrAddLayer_body(t) ==
    /\ pc[t] = "foal_body"
    /\ layers_' = layers_ \cup {call[t].layer}
    /\ mtx_' = FALSE
    /\ IF call[t].op = "submit"
         THEN /\ Goto(t, "ao_lock")
              /\ cur' = [cur EXCEPT ![t] = call[t].layer]
              /\ UNCHANGED << call, todo, idx, acc >>
         ELSE IF call[t].op = "submitLayer"
         THEN /\ Goto(t, "so_lock")
              /\ cur' = [cur EXCEPT ![t] = call[t].layer]
              /\ UNCHANGED << call, todo, idx, acc >>
         ELSE Return(t)
    /\ UNCHANGED << objects_, outdated_objects_, lmtx, editable, committed >>
    /\ UNCHANGED notOM

(***************************************************************************)
(* Layer::addObject                                                        *)
(***************************************************************************)
addObject_lock_unguarded(t) ==
    /\ pc[t] = "ao_lock"
    /\ Goto(t, "ao_find")
    /\ UNCHANGED << OMShared, OMLocals >>
    /\ UNCHANGED notOM

addObject_lock(t) ==
    /\ pc[t] = "ao_lock"
    /\ ~lmtx[cur[t]]
    /\ lmtx' = [lmtx EXCEPT ![cur[t]] = TRUE]
    /\ Goto(t, "ao_find")
    /\ UNCHANGED << layers_, mtx_, objects_, outdated_objects_, editable, committed,
                    OMLocals >>
    /\ UNCHANGED notOM

addObject_find(t) ==
    /\ pc[t] = "ao_find"
    /\ LET it == objects_[cur[t]][call[t].id]
       IN  outdated_objects_' =
             IF it # Null /\ it # call[t].obj
               THEN [outdated_objects_ EXCEPT ![cur[t]] = Append(@, it)]
               ELSE outdated_objects_
    /\ Goto(t, "ao_assign")
    /\ UNCHANGED << layers_, mtx_, objects_, lmtx, editable, committed, OMLocals >>
    /\ UNCHANGED notOM

addObject_assign(t) ==
    /\ pc[t] = "ao_assign"
    /\ objects_' = [objects_ EXCEPT ![cur[t]][call[t].id] = call[t].obj]
    /\ committed' = [committed EXCEPT ![cur[t]] = objects_'[cur[t]]]
    /\ lmtx' = [lmtx EXCEPT ![cur[t]] = FALSE]
    /\ Return(t)
    /\ UNCHANGED << layers_, mtx_, outdated_objects_, editable >>
    /\ UNCHANGED notOM

(***************************************************************************)
(* Layer::setObjects                                                       *)
(***************************************************************************)
setObjects_lock_unguarded(t) ==
    /\ pc[t] = "so_lock"
    /\ Goto(t, "so_clear")
    /\ UNCHANGED << OMShared, OMLocals >>
    /\ UNCHANGED notOM

setObjects_lock(t) ==
    /\ pc[t] = "so_lock"
    /\ ~lmtx[cur[t]]
    /\ lmtx' = [lmtx EXCEPT ![cur[t]] = TRUE]
    /\ Goto(t, "so_clear")
    /\ UNCHANGED << layers_, mtx_, objects_, outdated_objects_, editable, committed,
                    OMLocals >>
    /\ UNCHANGED notOM

setObjects_clear_skipped(t) ==
    /\ pc[t] = "so_clear"
    /\ idx' = [idx EXCEPT ![t] = 1]
    /\ Goto(t, "so_loop")
    /\ UNCHANGED << OMShared, call, todo, cur, acc >>
    /\ UNCHANGED notOM

setObjects_clear(t) ==
    /\ pc[t] = "so_clear"
    /\ objects_' = [objects_ EXCEPT ![cur[t]] = EmptyObjects]
    /\ idx' = [idx EXCEPT ![t] = 1]
    /\ Goto(t, "so_loop")
    /\ UNCHANGED << layers_, mtx_, outdated_objects_, lmtx, editable, committed,
                    call, todo, cur, acc >>
    /\ UNCHANGED notOM

setObjects_insert(t) ==
    /\ pc[t] = "so_loop"
    /\ idx[t] <= Len(call[t].vec)
    /\ LET obj == call[t].vec[idx[t]]
       IN  objects_' = IF obj # Null
                         THEN [objects_ EXCEPT ![cur[t]][IdOf(obj)] = obj]
                         ELSE objects_
    /\ idx' = [idx EXCEPT ![t] = @ + 1]
    /\ UNCHANGED << layers_, mtx_, outdated_objects_, lmtx, editable, committed,
                    pc, call, todo, cur, acc >>
    /\ UNCHANGED notOM

setObjects_unlock(t) ==
    /\ pc[t] = "so_loop"
    /\ idx[t] > Len(call[t].vec)
    /\ committed' = [committed EXCEPT ![cur[t]] = objects_[cur[t]]]
    /\ lmtx' = [lmtx EXCEPT ![cur[t]] = FALSE]
    /\ Return(t)
    /\ UNCHANGED << layers_, mtx_, objects_, outdated_objects_, editable >>
    /\ UNCHANGED notOM

(***************************************************************************)
(* ObjectManager::findObject, with Layer::findObject called under mtx_     *)
(***************************************************************************)
findObject(t, obj_id) ==
    /\ pc[t] = "idle"
    /\ ~mtx_
    /\ mtx_' = TRUE
    /\ call' = [call EXCEPT ![t] = [NoCall EXCEPT !.op = "findObject", !.id = obj_id]]
    /\ todo' = [todo EXCEPT ![t] = layers_]
    /\ Goto(t, "fo_iter")
    /\ UNCHANGED << layers_, objects_, outdated_objects_, lmtx, editable, committed,
                    cur, idx, acc >>
    /\ UNCHANGED notOM

\* The range-for over the unordered_map visits the layers in an unspecified order.
findObject_next(t) ==
    /\ pc[t] = "fo_iter"
    /\ \E l \in todo[t] :
         /\ cur' = [cur EXCEPT ![t] = l]
         /\ todo' = [todo EXCEPT ![t] = @ \ {l}]
    /\ Goto(t, "lf_lock")
    /\ UNCHANGED << OMShared, call, idx, acc >>
    /\ UNCHANGED notOM

findObject_notfound(t) ==
    /\ pc[t] = "fo_iter"
    /\ todo[t] = {}
    /\ mtx_' = FALSE
    /\ Return(t)
    /\ UNCHANGED << layers_, objects_, outdated_objects_, lmtx, editable, committed >>
    /\ UNCHANGED notOM

Layer_findObject_lock(t) ==
    /\ pc[t] = "lf_lock"
    /\ ~lmtx[cur[t]]
    /\ lmtx' = [lmtx EXCEPT ![cur[t]] = TRUE]
    /\ Goto(t, "lf_find")
    /\ UNCHANGED << layers_, mtx_, objects_, outdated_objects_, editable, committed,
                    OMLocals >>
    /\ UNCHANGED notOM

Layer_findObject_find(t) ==
    /\ pc[t] = "lf_find"
    /\ lmtx' = [lmtx EXCEPT ![cur[t]] = FALSE]
    /\ LET obj == objects_[cur[t]][call[t].id]
       IN  IF obj # Null
             THEN /\ mtx_' = FALSE
                  /\ Return(t)
             ELSE /\ Goto(t, "fo_iter")
                  /\ UNCHANGED << mtx_, OMLocals >>
    /\ UNCHANGED << layers_, objects_, outdated_objects_, editable, committed >>
    /\ UNCHANGED notOM

(***************************************************************************)
(* ObjectManager::findLayer                                                *)
(***************************************************************************)
findLayer(t, layer_id) ==
    /\ pc[t] = "idle"
    /\ ~mtx_
    /\ mtx_' = TRUE
    /\ call' = [call EXCEPT ![t] = [NoCall EXCEPT !.op = "findLayer", !.layer = layer_id]]
    /\ Goto(t, "fl_body")
    /\ UNCHANGED << layers_, objects_, outdated_objects_, lmtx, editable, committed,
                    todo, cur, idx, acc >>
    /\ UNCHANGED notOM

findLayer_body(t) ==
    /\ pc[t] = "fl_body"
    /\ mtx_' = FALSE
    /\ Return(t)
    /\ UNCHANGED << layers_, objects_, outdated_objects_, lmtx, editable, committed >>
    /\ UNCHANGED notOM

(***************************************************************************)
(* ObjectManager::layers                                                   *)
(***************************************************************************)
layers(t) ==
    /\ pc[t] = "idle"
    /\ ~mtx_
    /\ mtx_' = TRUE
    /\ call' = [call EXCEPT ![t] = [NoCall EXCEPT !.op = "layers"]]
    /\ Goto(t, "ly_body")
    /\ UNCHANGED << layers_, objects_, outdated_objects_, lmtx, editable, committed,
                    todo, cur, idx, acc >>
    /\ UNCHANGED notOM

layers_body(t) ==
    /\ pc[t] = "ly_body"
    /\ mtx_' = FALSE
    /\ Return(t)
    /\ UNCHANGED << layers_, objects_, outdated_objects_, lmtx, editable, committed >>
    /\ UNCHANGED notOM

(***************************************************************************)
(* Layer::objects, on a Layer::Ptr obtained from the manager               *)
(***************************************************************************)
objects(t, layer_id) ==
    /\ pc[t] = "idle"
    /\ layer_id \in layers_
    /\ ~lmtx[layer_id]
    /\ lmtx' = [lmtx EXCEPT ![layer_id] = TRUE]
    /\ call' = [call EXCEPT ![t] = [NoCall EXCEPT !.op = "objects", !.layer = layer_id]]
    /\ cur' = [cur EXCEPT ![t] = layer_id]
    /\ Goto(t, "ob_copy")
    /\ UNCHANGED << layers_, mtx_, objects_, outdated_objects_, editable, committed,
                    todo, idx, acc >>
    /\ UNCHANGED notOM

objects_copy(t) ==
    /\ pc[t] = "ob_copy"
    /\ lmtx' = [lmtx EXCEPT ![cur[t]] = FALSE]
    /\ Return(t)
    /\ UNCHANGED << layers_, mtx_, objects_, outdated_objects_, editable, committed >>
    /\ UNCHANGED notOM

(***************************************************************************)
(* ObjectManager::clearOutdatedObjects, with Layer::collectOutdatedObjects *)
(***************************************************************************)
clearOutdatedObjects(t) ==
    /\ pc[t] = "idle"
    /\ ~mtx_
    /\ mtx_' = TRUE
    /\ call' = [call EXCEPT ![t] = [NoCall EXCEPT !.op = "clearOutdatedObjects"]]
    /\ todo' = [todo EXCEPT ![t] = layers_]
    /\ Goto(t, "co_iter")
    /\ UNCHANGED << layers_, objects_, outdated_objects_, lmtx, editable, committed,
                    cur, idx, acc >>
    /\ UNCHANGED notOM

clearOutdatedObjects_next(t) ==
    /\ pc[t] = "co_iter"
    /\ \E l \in todo[t] :
         /\ cur' = [cur EXCEPT ![t] = l]
         /\ todo' = [todo EXCEPT ![t] = @ \ {l}]
    /\ Goto(t, "cl_lock")
    /\ UNCHANGED << OMShared, call, idx, acc >>
    /\ UNCHANGED notOM

collectOutdatedObjects_lock(t) ==
    /\ pc[t] = "cl_lock"
    /\ ~lmtx[cur[t]]
    /\ lmtx' = [lmtx EXCEPT ![cur[t]] = TRUE]
    /\ Goto(t, "cl_swap")
    /\ UNCHANGED << layers_, mtx_, objects_, outdated_objects_, editable, committed,
                    OMLocals >>
    /\ UNCHANGED notOM

collectOutdatedObjects_swap(t) ==
    /\ pc[t] = "cl_swap"
    /\ acc' = [acc EXCEPT ![t] = @ \o outdated_objects_[cur[t]]]
    /\ outdated_objects_' = [outdated_objects_ EXCEPT ![cur[t]] = << >>]
    /\ lmtx' = [lmtx EXCEPT ![cur[t]] = FALSE]
    /\ Goto(t, "co_iter")
    /\ UNCHANGED << layers_, mtx_, objects_, editable, committed,
                    call, todo, cur, idx >>
    /\ UNCHANGED notOM

\* The release loop runs over all_outdated while mtx_ is still held.
clearOutdatedObjects_release(t) ==
    /\ pc[t] = "co_iter"
    /\ todo[t] = {}
    /\ mtx_' = FALSE
    /\ Return(t)
    /\ UNCHANGED << layers_, objects_, outdated_objects_, lmtx, editable, committed >>
    /\ UNCHANGED notOM

OMStep(t) ==
    \/ \E s \in Submissions : submit(t, s[1], s[2])
    \/ \E s \in LayerSubmissions : submitLayer(t, s[1], s[2])
    \/ \E l \in LayerIds : findOrAddLayer(t, l)
    \/ findOrAddLayer_lock(t)
    \/ findOrAddLayer_body(t)
    \/ addObject_lock(t)
    \/ addObject_find(t)
    \/ addObject_assign(t)
    \/ setObjects_lock(t)
    \/ setObjects_clear(t)
    \/ setObjects_insert(t)
    \/ setObjects_unlock(t)
    \/ \E i \in ObjectIds : findObject(t, i)
    \/ findObject_next(t)
    \/ findObject_notfound(t)
    \/ Layer_findObject_lock(t)
    \/ Layer_findObject_find(t)
    \/ \E l \in LayerIds : findLayer(t, l)
    \/ findLayer_body(t)
    \/ layers(t)
    \/ layers_body(t)
    \/ \E l \in LayerIds : objects(t, l)
    \/ objects_copy(t)
    \/ clearOutdatedObjects(t)
    \/ clearOutdatedObjects_next(t)
    \/ collectOutdatedObjects_lock(t)
    \/ collectOutdatedObjects_swap(t)
    \/ clearOutdatedObjects_release(t)

OMNext == \E t \in Threads : OMStep(t)


(***************************************************************************)
(* Part 2  RecordingThread (src/src/recording_thread.cpp) and the          *)
(*         VideoRecorder it drives (src/src/video_recorder.cpp).           *)
(*         One RecordingThread object serves one recording session: the    *)
(*         container creates a new object for every startRecording and     *)
(*         destroys it in stopRecording                                    *)
(*         (src/src/octo_flex_view_container.cpp:151, 240).  The caller    *)
(*         (the GUI thread) runs startRecording, queueFrame and            *)
(*         stopRecording one after the other; the worker thread runs       *)
(*         run() / processFrames().  Frames are numbered in the order      *)
(*         queueFrame is called with them; the container never passes a    *)
(*         null image (octo_flex_view_container.cpp:121, 775).             *)
(***************************************************************************)
\* Stands for RecordingThread::maxQueueSize_ (60 in the program), scaled down.
MaxQueueSize == 3
\* Number of frames the caller captures in one session.
MaxFrames == 4

RecInit ==
    /\ recordingActive_ = FALSE
    /\ shouldStop_ = FALSE
    /\ frameQueue_ = << >>
    /\ queueMutex_ = FALSE
    /\ recorder_ = Null
    /\ lastError_ = ""
    /\ started_ = FALSE
    /\ processRunning = FALSE
    /\ cpc = "idle"
    /\ wpc = "notstarted"
    /\ frame = 0
    /\ wframe = 0
    /\ nextFrame = 1
    /\ startCalled = FALSE
    /\ almostFull = FALSE
    /\ accepted = << >>
    /\ rejected = {}
    /\ written = << >>
    /\ dropped = << >>
    /\ startRet = "none"
    /\ stopRet = "none"

\* The bool a call returns, kept apart from "none" (no call has returned yet).
BoolResult(b) == IF b THEN "true" ELSE "false"

RecGhosts == << accepted, rejected, written, dropped, startRet, stopRet >>
RecorderState == << started_, processRunning >>

(***************************************************************************)
(* RecordingThread::startRecording                                         *)
(***************************************************************************)
\* Entry up to QThread::start(); clearQueue() empties the queue under the mutex.
startRecording ==
    /\ cpc = "idle"
    /\ ~startCalled
    /\ startCalled' = TRUE
    /\ stopRet' = "none"
    /\ IF recordingActive_
         THEN /\ startRet' = "false"
              /\ UNCHANGED << recordingActive_, shouldStop_, lastError_, frameQueue_, dropped,
                              wpc, cpc >>
         ELSE /\ ~queueMutex_
              /\ shouldStop_' = FALSE
              /\ recordingActive_' = TRUE
              /\ lastError_' = ""
              /\ dropped' = dropped \o frameQueue_
              /\ frameQueue_' = << >>
              /\ wpc' = "run"
              /\ cpc' = "sr_wait"
              /\ UNCHANGED startRet
    /\ UNCHANGED << queueMutex_, recorder_, RecorderState, frame, wframe, nextFrame, almostFull,
                    accepted, rejected, written >>
    /\ UNCHANGED notRec

\* The wait loop sees recorder_ set by the worker.
startRecording_ready ==
    /\ cpc = "sr_wait"
    /\ recorder_ # Null
    /\ startRet' = "true"
    /\ cpc' = "idle"
    /\ UNCHANGED << recordingActive_, shouldStop_, frameQueue_, queueMutex_, recorder_, lastError_,
                    RecorderState, wpc, frame, wframe, nextFrame, startCalled, almostFull,
                    accepted, rejected, written, dropped, stopRet >>
    /\ UNCHANGED notRec

\* The three seconds pass and recorder_ is still null.
startRecording_timeout ==
    /\ cpc = "sr_wait"
    /\ recorder_ = Null
    /\ recordingActive_' = FALSE
    /\ startRet' = "false"
    /\ cpc' = "idle"
    /\ UNCHANGED << shouldStop_, frameQueue_, queueMutex_, recorder_, lastError_,
                    RecorderState, wpc, frame, wframe, nextFrame, startCalled, almostFull,
                    accepted, rejected, written, dropped, stopRet >>
    /\ UNCHANGED notRec

(***************************************************************************)
(* RecordingThread::queueFrame                                             *)
(***************************************************************************)
\* The test at the entry of queueFrame.
NotRecording_stop_only == shouldStop_

NotRecording == ~recordingActive_ \/ shouldStop_

queueFrame ==
    /\ cpc = "idle"
    /\ nextFrame <= MaxFrames
    /\ frame' = nextFrame
    /\ nextFrame' = nextFrame + 1
    /\ IF NotRecording
         THEN /\ rejected' = rejected \cup {nextFrame}
              /\ UNCHANGED cpc
         ELSE /\ cpc' = "qf_lock"
              /\ UNCHANGED rejected
    /\ UNCHANGED << recordingActive_, shouldStop_, frameQueue_, queueMutex_, recorder_, lastError_,
                    RecorderState, wpc, wframe, startCalled, almostFull, accepted, written,
                    dropped, startRet, stopRet >>
    /\ UNCHANGED notRec

queueFrame_lock ==
    /\ cpc = "qf_lock"
    /\ ~queueMutex_
    /\ queueMutex_' = TRUE
    /\ cpc' = "qf_body"
    /\ UNCHANGED << recordingActive_, shouldStop_, frameQueue_, recorder_, lastError_,
                    RecorderState, wpc, frame, wframe, nextFrame, startCalled, almostFull,
                    RecGhosts >>
    /\ UNCHANGED notRec

\* The capacity test of queueFrame.
QueueIsFull_off_by_one(size) == size > MaxQueueSize

QueueIsFull(size) == size >= MaxQueueSize

queueFrame_body ==
    /\ cpc = "qf_body"
    /\ IF QueueIsFull(Len(frameQueue_))
         THEN /\ almostFull' = TRUE
              /\ rejected' = rejected \cup {frame}
              /\ UNCHANGED << frameQueue_, accepted >>
         ELSE /\ frameQueue_' = Append(frameQueue_, frame)
              /\ almostFull' = (almostFull \/ (Len(frameQueue_') * 5 >= MaxQueueSize * 4))
              /\ accepted' = Append(accepted, frame)
              /\ UNCHANGED rejected
    /\ queueMutex_' = FALSE
    /\ cpc' = "idle"
    /\ UNCHANGED << recordingActive_, shouldStop_, recorder_, lastError_, RecorderState, wpc,
                    frame, wframe, nextFrame, startCalled, written, dropped, startRet, stopRet >>
    /\ UNCHANGED notRec

(***************************************************************************)
(* RecordingThread::stopRecording                                          *)
(***************************************************************************)
stopRecording ==
    /\ cpc = "idle"
    /\ IF ~recordingActive_
         THEN /\ stopRet' = BoolResult(lastError_ = "")
              /\ UNCHANGED << shouldStop_, cpc >>
         ELSE /\ shouldStop_' = TRUE
              /\ cpc' = "st_wait"
              /\ UNCHANGED stopRet
    /\ UNCHANGED << recordingActive_, frameQueue_, queueMutex_, recorder_, lastError_,
                    RecorderState, wpc, frame, wframe, nextFrame, startCalled, almostFull,
                    accepted, rejected, written, dropped, startRet >>
    /\ UNCHANGED notRec

\* wait(30000) returns true: the worker thread has finished.
stopRecording_joined ==
    /\ cpc = "st_wait"
    /\ wpc = "finished"
    /\ recordingActive_' = FALSE
    /\ recorder_' = Null
    /\ stopRet' = BoolResult(lastError_ = "")
    /\ cpc' = "idle"
    /\ UNCHANGED << shouldStop_, frameQueue_, queueMutex_, lastError_, RecorderState, wpc,
                    frame, wframe, nextFrame, startCalled, almostFull,
                    accepted, rejected, written, dropped, startRet >>
    /\ UNCHANGED notRec

\* wait(30000) times out: the worker is terminated where it stands.
stopRecording_timeout ==
    /\ cpc = "st_wait"
    /\ wpc # "finished"
    /\ wpc' = "terminated"
    /\ recordingActive_' = FALSE
    /\ recorder_' = Null
    /\ stopRet' = "false"
    /\ cpc' = "idle"
    /\ UNCHANGED << shouldStop_, frameQueue_, queueMutex_, lastError_, RecorderState,
                    frame, wframe, nextFrame, startCalled, almostFull,
                    accepted, rejected, written, dropped, startRet >>
    /\ UNCHANGED notRec

(***************************************************************************)
(* RecordingThread::run and VideoRecorder::start                           *)
(***************************************************************************)
run_create ==
    /\ wpc = "run"
    /\ recorder_' = "recorder"
    /\ wpc' = "run_start"
    /\ UNCHANGED << recordingActive_, shouldStop_, frameQueue_, queueMutex_, lastError_,
                    RecorderState, cpc, frame, wframe, nextFrame, startCalled, almostFull,
                    RecGhosts >>
    /\ UNCHANGED notRec

\* VideoRecorder::start succeeds or fails (invalid options, no ffmpeg, no start in 3 s).
run_start ==
    /\ wpc = "run_start"
    /\ \E ok \in BOOLEAN :
         IF ok
           THEN /\ started_' = TRUE
                /\ processRunning' = TRUE
                /\ wpc' = "pf_loop"
                /\ UNCHANGED << lastError_, recordingActive_ >>
           ELSE /\ lastError_' = "start"
                /\ recordingActive_' = FALSE
                /\ wpc' = "finished"
                /\ UNCHANGED << started_, processRunning >>
    /\ UNCHANGED << shouldStop_, frameQueue_, queueMutex_, recorder_, cpc, frame, wframe,
                    nextFrame, startCalled, almostFull, RecGhosts >>
    /\ UNCHANGED notRec

\* The encoder process ends on its own.
ffmpegExits ==
    /\ processRunning
    /\ processRunning' = FALSE
    /\ UNCHANGED << recordingActive_, shouldStop_, frameQueue_, queueMutex_, recorder_,
                    lastError_, started_, cpc, wpc, frame, wframe, nextFrame, startCalled,
                    almostFull, RecGhosts >>
    /\ UNCHANGED notRec

(***************************************************************************)
(* RecordingThread::processFrames                                          *)
(***************************************************************************)
\* The condition of the outer while loop.
KeepProcessing == ~shouldStop_ \/ frameQueue_ # << >>

processFrames_loop ==
    /\ wpc = "pf_loop"
    /\ wpc' = IF KeepProcessing THEN "pf_lock" ELSE "pf_stop"
    /\ UNCHANGED << recordingActive_, shouldStop_, frameQueue_, queueMutex_, recorder_,
                    lastError_, RecorderState, cpc, frame, wframe, nextFrame, startCalled,
                    almostFull, RecGhosts >>
    /\ UNCHANGED notRec

\* QMutexLocker, then the inner wait loop: the worker leaves it holding the mutex as
\* soon as a frame is queued, a stop is requested or the recording is inactive.
processFrames_lock ==
    /\ wpc = "pf_lock"
    /\ ~queueMutex_
    /\ ~(frameQueue_ = << >> /\ ~shouldStop_ /\ recordingActive_)
    /\ queueMutex_' = TRUE
    /\ wpc' = "pf_take"
    /\ UNCHANGED << recordingActive_, shouldStop_, frameQueue_, recorder_, lastError_,
                    RecorderState, cpc, frame, wframe, nextFrame, startCalled, almostFull,
                    RecGhosts >>
    /\ UNCHANGED notRec

processFrames_take_back ==
    /\ wpc = "pf_take"
    /\ queueMutex_' = FALSE
    /\ IF frameQueue_ = << >>
         THEN /\ wpc' = IF shouldStop_ \/ ~recordingActive_ THEN "pf_stop" ELSE "pf_loop"
              /\ UNCHANGED << frameQueue_, wframe >>
         ELSE /\ wframe' = frameQueue_[Len(frameQueue_)]
              /\ frameQueue_' = SubSeq(frameQueue_, 1, Len(frameQueue_) - 1)
              /\ wpc' = "pf_write"
    /\ UNCHANGED << recordingActive_, shouldStop_, recorder_, lastError_, RecorderState, cpc,
                    frame, nextFrame, startCalled, almostFull, RecGhosts >>
    /\ UNCHANGED notRec
processFrames_take ==
    /\ wpc = "pf_take"
    /\ queueMutex_' = FALSE
    /\ IF frameQueue_ = << >>
         THEN /\ wpc' = IF shouldStop_ \/ ~recordingActive_ THEN "pf_stop" ELSE "pf_loop"
              /\ UNCHANGED << frameQueue_, wframe >>
         ELSE /\ wframe' = Head(frameQueue_)
              /\ frameQueue_' = Tail(frameQueue_)
              /\ wpc' = "pf_write"
    /\ UNCHANGED << recordingActive_, shouldStop_, recorder_, lastError_, RecorderState, cpc,
                    frame, nextFrame, startCalled, almostFull, RecGhosts >>
    /\ UNCHANGED notRec

\* VideoRecorder::writeFrame: fails when the recorder is not running, and may fail
\* in writeAll.
processFrames_write ==
    /\ wpc = "pf_write"
    /\ \E ok \in BOOLEAN :
         /\ ok => (started_ /\ processRunning)
         /\ IF ok
              THEN /\ written' = Append(written, wframe)
                   /\ wpc' = "pf_loop"
                   /\ UNCHANGED << lastError_, dropped >>
              ELSE /\ lastError_' = "write"
                   /\ dropped' = Append(dropped, wframe)
                   /\ wpc' = "pf_stop"
                   /\ UNCHANGED written
    /\ UNCHANGED << recordingActive_, shouldStop_, frameQueue_, queueMutex_, recorder_,
                    RecorderState, cpc, frame, wframe, nextFrame, startCalled, almostFull,
                    accepted, rejected, startRet, stopRet >>
    /\ UNCHANGED notRec

\* VideoRecorder::stop: true at once when the process is not running, else the
\* outcome of closing the pipe and waiting for ffmpeg.
processFrames_stop ==
    /\ wpc = "pf_stop"
    /\ \E ok \in BOOLEAN :
         /\ ~processRunning => ok
         /\ lastError_' = IF ~ok /\ lastError_ = "" THEN "stop" ELSE lastError_
    /\ started_' = FALSE
    /\ processRunning' = FALSE
    /\ wpc' = "pf_clear"
    /\ UNCHANGED << recordingActive_, shouldStop_, frameQueue_, queueMutex_, recorder_, cpc,
                    frame, wframe, nextFrame, startCalled, almostFull, RecGhosts >>
    /\ UNCHANGED notRec

\* clearQueue() at the end of processFrames, then the thread finishes.
processFrames_clear ==
    /\ wpc = "pf_clear"
    /\ ~queueMutex_
    /\ dropped' = dropped \o frameQueue_
    /\ frameQueue_' = << >>
    /\ wpc' = "finished"
    /\ UNCHANGED << recordingActive_, shouldStop_, queueMutex_, recorder_, lastError_,
                    RecorderState, cpc, frame, wframe, nextFrame, startCalled, almostFull,
                    accepted, rejected, written, startRet, stopRet >>
    /\ UNCHANGED notRec

RecNext ==
    \/ startRecording
    \/ startRecording_ready
    \/ startRecording_timeout
    \/ queueFrame
    \/ queueFrame_lock
    \/ queueFrame_body
    \/ stopRecording
    \/ stopRecording_joined
    \/ stopRecording_timeout
    \/ run_create
    \/ run_start
    \/ ffmpegExits
    \/ processFrames_loop
    \/ processFrames_lock
    \/ processFrames_take
    \/ processFrames_write
    \/ processFrames_stop
    \/ processFrames_clear

(***************************************************************************)
(* Part 3  EmbeddedViewer / OctoFlexViewContainer / OctoFlexView           *)
(*         (src/src/octo_flex_viewer.cpp,                                  *)
(*         src/src/octo_flex_view_container.cpp, src/unnamed/part_009):    *)
(*         the views of one viewer, their layer filters and selections,    *)
(*         driven by the GUI thread.                                       *)
(***************************************************************************)
\* Number of views the container creates over its lifetime (viewIdCounter_ stops here).
MaxViews == 2

\* A view is named by the number createView gave it ("View 1", "View 2", ...).
ViewIds == 1..MaxViews
\* The null OctoFlexView pointer.
NoView == 0
\* The (object, layer) pairs the application adds to the viewer, each object once:
\* o1 and o2 carry the same ID into two layers.
ViewSubmissions == { <<"o1", "L1">>, <<"o2", "L2">>, <<"o3", "L1">> }
\* SelectionMode
SelectionModes == {"POINT", "RECT"}
\* Iteration order of std::set<std::string> over the object IDs.
IdOrder == <<"a", "b">>

\* The scene of the ObjectManager as the views read it.
sceneVars == << layers_, objects_, outdated_objects_, editable, committed >>
\* The rest of the ObjectManager part: its mutexes and the callers' positions.
omRest == << mtx_, lmtx, pc, call, todo, cur, idx, acc >>
notEmb == << omRest, recVars, texVars, bldVars, settingsVars, glVars, csVars >>
notView == << notEmb, embVars >>
notGL == << omVars, recVars, viewVars, texVars, bldVars, embVars, settingsVars, csVars >>
notCS == << omVars, recVars, viewVars, texVars, bldVars, embVars, settingsVars, glVars >>
notSettings == << omRest, recVars, texVars, bldVars, embVars, glVars, csVars >>

ViewInit ==
    /\ viewerCreated = FALSE
    /\ container = FALSE
    /\ obj_manager = FALSE
    /\ views_ = <<>>
    /\ viewIdCounter_ = 1
    /\ currentView_ = NoView
    /\ focusView = NoView
    /\ unvisable_layers_ = [v \in ViewIds |-> {}]
    /\ unselectable_layers_ = [v \in ViewIds |-> {}]
    /\ selectedObjects_ = [v \in ViewIds |-> {}]
    /\ exportRet = <<>>
    /\ ignoredHit = FALSE

\* std::vector<std::string>(selectedIds.begin(), selectedIds.end())
SetToVector(S) == SelectSeq(IdOrder, LAMBDA x : x \in S)

\* std::find(views_.begin(), views_.end(), view) != views_.end()
InViews(view) == \E i \in 1..Len(views_) : views_[i] = view

(***************************************************************************)
(* OctoFlexViewer::createEmbedded, with OctoFlexViewContainer's            *)
(* createInitialView and createView                                        *)
(***************************************************************************)
createEmbedded(qApp) ==
    /\ ~viewerCreated
    /\ viewerCreated' = TRUE
    /\ IF qApp
         THEN /\ obj_manager' = TRUE
              /\ container' = TRUE
              /\ views_' = Append(views_, viewIdCounter_)
              /\ viewIdCounter_' = viewIdCounter_ + 1
              /\ currentView_' = viewIdCounter_
              /\ focusView' = viewIdCounter_
         ELSE UNCHANGED << obj_manager, container, views_, viewIdCounter_, currentView_,
                           focusView >>
    /\ UNCHANGED << unvisable_layers_, unselectable_layers_, selectedObjects_, exportRet,
                    ignoredHit, sceneVars >>
    /\ UNCHANGED notView

(***************************************************************************)
(* EmbeddedViewer::add: ObjectManager::submit run to completion by the     *)
(* calling thread (findOrAddLayer, then Layer::addObject)                  *)
(***************************************************************************)
\* The application adds each object once, while it is still editable.
EmbeddedViewer_add(object, layer_id) ==
    /\ viewerCreated
    /\ object \in editable
    /\ IF ~obj_manager \/ object = Null
         THEN UNCHANGED sceneVars
         ELSE /\ editable' = editable \ {object}
              /\ layers_' = layers_ \cup {layer_id}
              /\ outdated_objects_' =
                    IF objects_[layer_id][IdOf(object)] \notin {Null, object}
                      THEN [outdated_objects_ EXCEPT
                              ![layer_id] = Append(@, objects_[layer_id][IdOf(object)])]
                      ELSE outdated_objects_
              /\ objects_' = [objects_ EXCEPT ![layer_id][IdOf(object)] = object]
              /\ committed' = [committed EXCEPT ![layer_id] = objects_'[layer_id]]
    /\ UNCHANGED viewVars
    /\ UNCHANGED notView

(***************************************************************************)
(* OctoFlexViewContainer::splitView (splitHorizontal, splitVertical)       *)
(***************************************************************************)
splitView_grid_default(view) ==
    /\ container
    /\ InViews(view)
    /\ viewIdCounter_ <= MaxViews
    /\ LET newView == viewIdCounter_
       IN  /\ views_' = Append(views_, newView)
           /\ viewIdCounter_' = viewIdCounter_ + 1
           /\ unvisable_layers_' = [unvisable_layers_ EXCEPT ![newView] = unvisable_layers_[view]]
           /\ unselectable_layers_' =
                 [unselectable_layers_ EXCEPT ![newView] = unselectable_layers_[view]]
           /\ isPerspective_' = [isPerspective_ EXCEPT ![newView] = isPerspective_[view]]
           /\ visible_' = [visible_ EXCEPT ![newView] =
                              IF visible_[view] # @ THEN ~@ ELSE @]
           /\ showGrid_' = showGrid_
           /\ currentView_' = newView
           /\ focusView' = newView
    /\ UNCHANGED << viewerCreated, container, obj_manager, selectedObjects_, exportRet,
                    ignoredHit, sceneVars >>
    /\ UNCHANGED notSettings
splitView(view) ==
    /\ container
    /\ InViews(view)
    /\ viewIdCounter_ <= MaxViews
    /\ LET newView == viewIdCounter_
       IN  /\ views_' = Append(views_, newView)
           /\ viewIdCounter_' = viewIdCounter_ + 1
           /\ unvisable_layers_' = [unvisable_layers_ EXCEPT ![newView] = unvisable_layers_[view]]
           /\ unselectable_layers_' =
                 [unselectable_layers_ EXCEPT ![newView] = unselectable_layers_[view]]
           /\ isPerspective_' = [isPerspective_ EXCEPT ![newView] = isPerspective_[view]]
           /\ visible_' = [visible_ EXCEPT ![newView] =
                              IF visible_[view] # @ THEN ~@ ELSE @]
           /\ showGrid_' = [showGrid_ EXCEPT ![newView] =
                               IF showGrid_[view] # @ THEN ~@ ELSE @]
           /\ currentView_' = newView
           /\ focusView' = newView
    /\ UNCHANGED << viewerCreated, container, obj_manager, selectedObjects_, exportRet,
                    ignoredHit, sceneVars >>
    /\ UNCHANGED notSettings

(***************************************************************************)
(* OctoFlexViewContainer::removeView (removeCurrentView)                   *)
(***************************************************************************)
\* The view the container makes current when the current one is removed.
NextCurrent(remaining, view) ==
    IF view = currentView_
      THEN (IF remaining # <<>> THEN Head(remaining) ELSE NoView)
      ELSE currentView_

removeView(view) ==
    /\ container
    /\ InViews(view)
    /\ Len(views_) > 1
    /\ LET remaining == SelectSeq(views_, LAMBDA w : w # view)
       IN  /\ views_' = remaining
           /\ currentView_' = NextCurrent(remaining, view)
           /\ focusView' = IF view = currentView_ THEN currentView_'
                           ELSE IF view = focusView THEN NoView ELSE focusView
    \* the removed view is deleted
    /\ unvisable_layers_' = [unvisable_layers_ EXCEPT ![view] = {}]
    /\ unselectable_layers_' = [unselectable_layers_ EXCEPT ![view] = {}]
    /\ selectedObjects_' = [selectedObjects_ EXCEPT ![view] = {}]
    /\ UNCHANGED << viewerCreated, container, obj_manager, viewIdCounter_, exportRet,
                    ignoredHit, sceneVars >>
    /\ UNCHANGED notView

(***************************************************************************)
(* OctoFlexViewContainer::eventFilter, QEvent::FocusIn on a view           *)
(***************************************************************************)
eventFilter_FocusIn(view) ==
    /\ container
    /\ InViews(view)
    /\ focusView # view
    /\ focusView' = view
    /\ currentView_' = view
    /\ UNCHANGED << viewerCreated, container, obj_manager, views_, viewIdCounter_,
                    unvisable_layers_, unselectable_layers_, selectedObjects_, exportRet,
                    ignoredHit, sceneVars >>
    /\ UNCHANGED notView

\* The keyboard focus moves to a widget that is not a view.
focusLeavesViews ==
    /\ focusView # NoView
    /\ focusView' = NoView
    /\ UNCHANGED << viewerCreated, container, obj_manager, views_, viewIdCounter_,
                    currentView_, unvisable_layers_, unselectable_layers_, selectedObjects_,
                    exportRet, ignoredHit, sceneVars >>
    /\ UNCHANGED notView

(***************************************************************************)
(* OctoFlexView::showVisibleLayerDialog / showSelectableLayerDialog,       *)
(* accepted with the layers in `checked` ticked                            *)
(***************************************************************************)
showVisibleLayerDialog(view, checked) ==
    /\ container
    /\ InViews(view)
    /\ checked \subseteq layers_
    /\ unvisable_layers_' = [unvisable_layers_ EXCEPT ![view] = layers_ \ checked]
    /\ UNCHANGED << viewerCreated, container, obj_manager, views_, viewIdCounter_,
                    currentView_, focusView, unselectable_layers_, selectedObjects_,
                    exportRet, ignoredHit, sceneVars >>
    /\ UNCHANGED notView

showSelectableLayerDialog(view, checked) ==
    /\ container
    /\ InViews(view)
    /\ checked \subseteq layers_
    /\ unselectable_layers_' = [unselectable_layers_ EXCEPT ![view] = layers_ \ checked]
    /\ UNCHANGED << viewerCreated, container, obj_manager, views_, viewIdCounter_,
                    currentView_, focusView, unvisable_layers_, selectedObjects_,
                    exportRet, ignoredHit, sceneVars >>
    /\ UNCHANGED notView

(***************************************************************************)
(* OctoFlexView::mouseReleaseEvent -> handleSelectionWithGLSelect          *)
(***************************************************************************)
\* The objects of the scene, each named by its layer and its ID.
SceneObjects == { p \in LayerIds \X ObjectIds : p[1] \in layers_ /\ objects_[p[1]][p[2]] # Null }

\* The layers whose objects handleSelectionWithGLSelect renders with a name.
PickCandidate_ignores_unselectable(view, layer_id) ==
    layer_id \notin unvisable_layers_[view]
PickCandidate(view, layer_id) ==
    /\ layer_id \notin unvisable_layers_[view]
    /\ layer_id \notin unselectable_layers_[view]

\* nameToObjectId_: the named objects; the ID of a name is its second component.
nameToObjectId_(view) == { p \in SceneObjects : PickCandidate(view, p[1]) }

\* selectObject applied to the names processHits returned.
Picked(view, mode, selectedNames) ==
    LET ids == { p[2] : p \in selectedNames }
    IN  IF mode = "POINT"
          THEN (selectedObjects_[view] \ ids) \cup (ids \ selectedObjects_[view])
          ELSE selectedObjects_[view] \cup ids

\* `under` are the objects whose geometry meets the pick region.
mouseReleaseEvent(view, mode, under) ==
    /\ container
    /\ InViews(view)
    /\ under \subseteq SceneObjects
    /\ LET hits == nameToObjectId_(view) \cap under
       IN  \E selectedNames \in SUBSET hits :
              \* processHits: the nearest hit in point mode, every hit in rectangle mode
              /\ IF mode = "POINT"
                   THEN Cardinality(selectedNames) = (IF hits = {} THEN 0 ELSE 1)
                   ELSE selectedNames = hits
              /\ selectedObjects_' =
                    [selectedObjects_ EXCEPT ![view] = Picked(view, mode, selectedNames)]
    /\ ignoredHit' = /\ selectedObjects_'[view] # selectedObjects_[view]
                     /\ \E p \in under : \/ p[1] \in unvisable_layers_[view]
                                         \/ p[1] \in unselectable_layers_[view]
    /\ UNCHANGED << viewerCreated, container, obj_manager, views_, viewIdCounter_,
                    currentView_, focusView, unvisable_layers_, unselectable_layers_,
                    exportRet, sceneVars >>
    /\ UNCHANGED notView

(***************************************************************************)
(* OctoFlexView::keyPressEvent, Qt::Key_Escape -> clearSelection           *)
(***************************************************************************)
clearSelection(view) ==
    /\ container
    /\ InViews(view)
    /\ selectedObjects_[view] # {}
    /\ selectedObjects_' = [selectedObjects_ EXCEPT ![view] = {}]
    /\ UNCHANGED << viewerCreated, container, obj_manager, views_, viewIdCounter_,
                    currentView_, focusView, unvisable_layers_, unselectable_layers_,
                    exportRet, ignoredHit, sceneVars >>
    /\ UNCHANGED notView

(***************************************************************************)
(* EmbeddedViewer::exportSelectedObjectIds                                 *)
(* (OctoFlexViewer::exportSelectedObjectIds has the same body)             *)
(***************************************************************************)
\* OctoFlexViewContainer::getCurrentView
getCurrentView_first == IF views_ # <<>> THEN Head(views_) ELSE NoView
getCurrentView == currentView_

exportSelectedObjectIds ==
    /\ viewerCreated
    /\ exportRet' = IF ~container THEN <<>>
                    ELSE IF getCurrentView = NoView THEN <<>>
                    ELSE SetToVector(selectedObjects_[getCurrentView])
    /\ UNCHANGED << viewerCreated, container, obj_manager, views_, viewIdCounter_,
                    currentView_, focusView, unvisable_layers_, unselectable_layers_,
                    selectedObjects_, ignoredHit, sceneVars >>
    /\ UNCHANGED notView

\* The container runs: views are created, split, removed and focused, objects picked,
\* and the selection exported.
ViewNext ==
    \/ \E qApp \in BOOLEAN : createEmbedded(qApp)
    \/ \E s \in ViewSubmissions : EmbeddedViewer_add(s[1], s[2])
    \/ \E view \in ViewIds : splitView(view)
    \/ \E view \in ViewIds : removeView(view)
    \/ \E view \in ViewIds : eventFilter_FocusIn(view)
    \/ focusLeavesViews
    \/ \E view \in ViewIds, mode \in SelectionModes, under \in SUBSET SceneObjects :
          mouseReleaseEvent(view, mode, under)
    \/ \E view \in ViewIds : clearSelection(view)
    \/ exportSelectedObjectIds

\* The picking runs: views are created and split, layers are filtered, objects picked.
PickNext ==
    \/ \E qApp \in BOOLEAN : createEmbedded(qApp)
    \/ \E s \in ViewSubmissions : EmbeddedViewer_add(s[1], s[2])
    \/ \E view \in ViewIds : splitView(view)
    \/ \E view \in ViewIds, checked \in SUBSET LayerIds : showVisibleLayerDialog(view, checked)
    \/ \E view \in ViewIds, checked \in SUBSET LayerIds : showSelectableLayerDialog(view, checked)
    \/ \E view \in ViewIds, mode \in SelectionModes, under \in SUBSET SceneObjects :
          mouseReleaseEvent(view, mode, under)
    \/ \E view \in ViewIds : clearSelection(view)

(***************************************************************************)
(* Part 4  TextureManager (src/src/camera.h, src/unnamed/part_006):        *)
(*         the upload queue, its mutex, the client threads that queue and  *)
(*         cancel uploads and the background upload thread.                *)
(***************************************************************************)
\* Number of enqueues the client threads complete in one run.
MaxEnqueues == 3

\* Threads calling into the TextureManager.
TexThreads == {"c1", "c2"}
\* Shapes handed to the manager: two textured quads with image data, one textured
\* quad without image data and one shape that is no TexturedQuad.
TexShapes == {"q1", "q2", "qEmpty", "lines"}
\* std::dynamic_pointer_cast<TexturedQuad>(shape) is not null
IsTexturedQuad(shape) == shape \in {"q1", "q2", "qEmpty"}
\* The quad holds valid image data (TexturedQuad::image_data_.isValid()).
hasImageData(shape) == shape \in {"q1", "q2"}

TexInit ==
    /\ uploadQueue_ = <<>>
    /\ mutex_ = FALSE
    /\ readyTextures_ = {}
    /\ shouldQuit_ = FALSE
    /\ initialized_ = FALSE
    /\ tpc = [c \in TexThreads |-> "idle"]
    /\ targ = [c \in TexThreads |-> Null]
    /\ tsnap = [c \in TexThreads |-> <<>>]
    /\ texWorker = "unstarted"
    /\ texturedQuad = Null
    /\ queueSizeRet = 0
    /\ enqueued = [s \in TexShapes |-> 0]
    /\ dequeued = [s \in TexShapes |-> 0]
    /\ erased = [s \in TexShapes |-> 0]
    /\ cancelled = {}
    /\ cleanupPc = "idle"

RECURSIVE SumOver(_, _)
SumOver(f, S) == IF S = {} THEN 0
                 ELSE LET x == CHOOSE y \in S : TRUE IN f[x] + SumOver(f, S \ {x})

(***************************************************************************)
(* TextureManager::initialize                                              *)
(***************************************************************************)
initialize(mainContext) ==
    /\ IF ~mainContext \/ initialized_
         THEN UNCHANGED << texWorker, initialized_ >>
         ELSE /\ texWorker' = IF texWorker = "unstarted" THEN "start" ELSE texWorker
              /\ initialized_' = TRUE
    /\ UNCHANGED << cleanupPc, uploadQueue_, mutex_, readyTextures_, shouldQuit_, tpc, targ, tsnap,
                    texturedQuad, queueSizeRet, enqueued, dequeued, erased, cancelled >>
    /\ UNCHANGED notTex

(***************************************************************************)
(* TextureManager::queueTextureForUpload                                   *)
(***************************************************************************)
queueTextureForUpload(c, shape) ==
    /\ tpc[c] = "idle"
    /\ SumOver(enqueued, TexShapes) + Cardinality({d \in TexThreads : tpc[d] # "idle"})
          < MaxEnqueues
    /\ IF ~IsTexturedQuad(shape) \/ ~hasImageData(shape)
         THEN UNCHANGED << tpc, targ, cancelled >>
         ELSE /\ tpc' = [tpc EXCEPT ![c] = "q_lock"]
              /\ targ' = [targ EXCEPT ![c] = shape]
              /\ cancelled' = cancelled \ {shape}
    /\ UNCHANGED << cleanupPc, uploadQueue_, mutex_, readyTextures_, shouldQuit_, initialized_, tsnap,
                    texWorker, texturedQuad, queueSizeRet, enqueued, dequeued, erased >>
    /\ UNCHANGED notTex

\* QMutexLocker locker(&mutex_); uploadQueue_.enqueue begins on the queue as it is.
queueTextureForUpload_lock_unguarded(c) ==
    /\ tpc[c] = "q_lock"
    /\ tpc' = [tpc EXCEPT ![c] = "q_enqueue"]
    /\ tsnap' = [tsnap EXCEPT ![c] = uploadQueue_]
    /\ UNCHANGED << cleanupPc, uploadQueue_, mutex_, readyTextures_, shouldQuit_, initialized_, targ,
                    texWorker, texturedQuad, queueSizeRet, enqueued, dequeued, erased,
                    cancelled >>
    /\ UNCHANGED notTex
queueTextureForUpload_lock(c) ==
    /\ tpc[c] = "q_lock"
    /\ ~mutex_
    /\ mutex_' = TRUE
    /\ tpc' = [tpc EXCEPT ![c] = "q_enqueue"]
    /\ tsnap' = [tsnap EXCEPT ![c] = uploadQueue_]
    /\ UNCHANGED << cleanupPc, uploadQueue_, readyTextures_, shouldQuit_, initialized_, targ,
                    texWorker, texturedQuad, queueSizeRet, enqueued, dequeued, erased,
                    cancelled >>
    /\ UNCHANGED notTex

\* uploadQueue_.enqueue completes; condition_.wakeAll(); the locker unlocks.
queueTextureForUpload_enqueue(c) ==
    /\ tpc[c] = "q_enqueue"
    /\ uploadQueue_' = Append(tsnap[c], targ[c])
    /\ enqueued' = [enqueued EXCEPT ![targ[c]] = @ + 1]
    /\ mutex_' = FALSE
    /\ tpc' = [tpc EXCEPT ![c] = "idle"]
    /\ targ' = [targ EXCEPT ![c] = Null]
    /\ tsnap' = [tsnap EXCEPT ![c] = <<>>]
    /\ UNCHANGED << cleanupPc, readyTextures_, shouldQuit_, initialized_, texWorker, texturedQuad,
                    queueSizeRet, dequeued, erased, cancelled >>
    /\ UNCHANGED notTex

(***************************************************************************)
(* TextureManager::cancelTextureUpload                                     *)
(***************************************************************************)
\* Number of entries of the queue that are this shape.
EntriesOf(shape, queue) == Cardinality({ i \in 1..Len(queue) : queue[i] = shape })

cancelTextureUpload(c, shape) ==
    /\ tpc[c] = "idle"
    /\ IF ~IsTexturedQuad(shape)
         THEN UNCHANGED << uploadQueue_, erased, cancelled >>
         ELSE /\ ~mutex_
              /\ uploadQueue_' = SelectSeq(uploadQueue_, LAMBDA e : e # shape)
              /\ erased' = [erased EXCEPT ![shape] = @ + EntriesOf(shape, uploadQueue_)]
              /\ cancelled' = cancelled \cup {shape}
    /\ UNCHANGED << cleanupPc, mutex_, readyTextures_, shouldQuit_, initialized_, tpc, targ, tsnap,
                    texWorker, texturedQuad, queueSizeRet, enqueued, dequeued >>
    /\ UNCHANGED notTex

(***************************************************************************)
(* TextureManager::getQueueSize                                            *)
(***************************************************************************)
getQueueSize(c) ==
    /\ tpc[c] = "idle"
    /\ ~mutex_
    /\ queueSizeRet' = Len(uploadQueue_)
    /\ UNCHANGED << cleanupPc, uploadQueue_, mutex_, readyTextures_, shouldQuit_, initialized_, tpc,
                    targ, tsnap, texWorker, texturedQuad, enqueued, dequeued, erased,
                    cancelled >>
    /\ UNCHANGED notTex

(***************************************************************************)
(* TextureManager::run                                                     *)
(***************************************************************************)
\* createSharedContextInThread and makeCurrent succeed or fail.
run_context(ok) ==
    /\ texWorker = "start"
    /\ texWorker' = IF ok THEN "loop" ELSE "exited"
    /\ UNCHANGED << cleanupPc, uploadQueue_, mutex_, readyTextures_, shouldQuit_, initialized_, tpc,
                    targ, tsnap, texturedQuad, queueSizeRet, enqueued, dequeued, erased,
                    cancelled >>
    /\ UNCHANGED notTex

\* while (!shouldQuit_) fails, or the test under the mutex breaks out of the loop.
run_quit ==
    /\ texWorker = "loop"
    /\ shouldQuit_
    /\ texWorker' = "exited"
    /\ UNCHANGED << cleanupPc, uploadQueue_, mutex_, readyTextures_, shouldQuit_, initialized_, tpc,
                    targ, tsnap, texturedQuad, queueSizeRet, enqueued, dequeued, erased,
                    cancelled >>
    /\ UNCHANGED notTex

\* Under the mutex: uploadQueue_.dequeue().lock() into texturedQuad.
run_dequeue ==
    /\ texWorker = "loop"
    /\ ~shouldQuit_
    /\ ~mutex_
    /\ uploadQueue_ # <<>>
    /\ texturedQuad' = Head(uploadQueue_)
    /\ uploadQueue_' = Tail(uploadQueue_)
    /\ dequeued' = [dequeued EXCEPT ![Head(uploadQueue_)] = @ + 1]
    /\ texWorker' = "upload"
    /\ UNCHANGED << cleanupPc, mutex_, readyTextures_, shouldQuit_, initialized_, tpc, targ, tsnap,
                    queueSizeRet, enqueued, erased, cancelled >>
    /\ UNCHANGED notTex

\* Outside the mutex: texturedQuad->ensureTextureUploaded().
run_upload ==
    /\ texWorker = "upload"
    /\ texWorker' = IF texturedQuad # Null /\ hasImageData(texturedQuad)
                      THEN "ready" ELSE "loop"
    /\ texturedQuad' = IF texturedQuad # Null /\ hasImageData(texturedQuad)
                         THEN texturedQuad ELSE Null
    /\ UNCHANGED << cleanupPc, uploadQueue_, mutex_, readyTextures_, shouldQuit_, initialized_, tpc,
                    targ, tsnap, queueSizeRet, enqueued, dequeued, erased, cancelled >>
    /\ UNCHANGED notTex

\* Under the mutex: readyTextures_.insert(textureId); the loop body ends.
run_ready ==
    /\ texWorker = "ready"
    /\ ~mutex_
    /\ readyTextures_' = readyTextures_ \cup {texturedQuad}
    /\ texturedQuad' = Null
    /\ texWorker' = "loop"
    /\ UNCHANGED << cleanupPc, uploadQueue_, mutex_, shouldQuit_, initialized_, tpc, targ, tsnap,
                    queueSizeRet, enqueued, dequeued, erased, cancelled >>
    /\ UNCHANGED notTex

(***************************************************************************)
(* TextureManager::cleanup                                                 *)
(***************************************************************************)
cleanup ==
    /\ cleanupPc = "idle"
    /\ cleanupPc' = "wait"
    /\ shouldQuit_' = TRUE
    /\ UNCHANGED << uploadQueue_, mutex_, readyTextures_, initialized_, tpc, targ, tsnap,
                    texWorker, texturedQuad, queueSizeRet, enqueued, dequeued, erased,
                    cancelled >>
    /\ UNCHANGED notTex

\* wait() has returned (the thread is not running); the queue is cleared under the mutex.
cleanup_clear ==
    /\ cleanupPc = "wait"
    /\ texWorker \in {"unstarted", "exited"}
    /\ ~mutex_
    /\ cleanupPc' = "idle"
    /\ uploadQueue_' = <<>>
    /\ UNCHANGED << mutex_, readyTextures_, shouldQuit_, initialized_, tpc, targ, tsnap,
                    texWorker, texturedQuad, queueSizeRet, enqueued, dequeued, erased,
                    cancelled >>
    /\ UNCHANGED notTex

TexNext ==
    \/ \E mainContext \in BOOLEAN : initialize(mainContext)
    \/ \E c \in TexThreads, shape \in TexShapes : queueTextureForUpload(c, shape)
    \/ \E c \in TexThreads : queueTextureForUpload_lock(c)
    \/ \E c \in TexThreads : queueTextureForUpload_enqueue(c)
    \/ \E c \in TexThreads, shape \in TexShapes : cancelTextureUpload(c, shape)
    \/ \E c \in TexThreads : getQueueSize(c)
    \/ \E ok \in BOOLEAN : run_context(ok)
    \/ run_quit
    \/ run_dequeue
    \/ run_upload
    \/ run_ready
    \/ cleanup
    \/ cleanup_clear

(***************************************************************************)
(* Part 5: ObjectBuilder.  A Vec3 is a pair of integers in the XY plane, a *)
(* Quaternion a number of quarter turns about Z, a scale a uniform factor. *)
(* A shape is followed through one of its points.                          *)
(***************************************************************************)
MaxCalls == 4

BldPoints == {<<1, 0>>, <<0, 1>>}

BldTurns == {1}

BldScales == {2}

\* Vec3(0, 0, 0).
ZeroVec == <<0, 0>>

\* Vec3 operator+.
VecAdd(a, b) == <<a[1] + b[1], a[2] + b[2]>>

\* Quaternion(): the identity rotation.
IdentityQuaternion == 0

quaternionMultiply(q1, q2) == (q1 + q2) % 4

quaternionRotateVector(q, v) ==
    CASE q = 0 -> v
      [] q = 1 -> <<-v[2], v[1]>>
      [] q = 2 -> <<-v[1], -v[2]>>
      [] q = 3 -> <<v[2], -v[1]>>

isIdentityQuaternion(q) == q = IdentityQuaternion

\* The shape-level transform that leaves a shape as it is.
NoShapeTransform == [position |-> ZeroVec, orientation |-> IdentityQuaternion, scale |-> 1]

\* The builder's pending shape-level transform.
NextShape ==
    [position |-> next_shape_position_, orientation |-> next_shape_orientation_,
     scale |-> next_shape_scale_]

\* A shape as its constructor leaves it: point is one of its points_, applied the
\* pending transform applyPendingShapeTransform used on it, wanted the transform
\* requested for it by the chain.
NewShape(kind, wanted) ==
    [kind |-> kind, point |-> <<1, 0>>, applied |-> NoShapeTransform, wanted |-> wanted]

Shape_move(shape, vec) == [shape EXCEPT !.point = VecAdd(@, vec)]

Shape_rotate(shape, quad) == [shape EXCEPT !.point = quaternionRotateVector(quad, @)]

Shape_scale(shape, s) == [shape EXCEPT !.point = <<@[1] * s, @[2] * s>>]

Object_addShape(o, shape) == [o EXCEPT !.shapes_ = Append(@, shape)]

Object_move(o, vec) ==
    [o EXCEPT !.shapes_ = [i \in DOMAIN @ |-> Shape_move(@[i], vec)],
              !.position_ = VecAdd(vec, @)]

Object_rotate(o, quad) ==
    [o EXCEPT !.shapes_ = [i \in DOMAIN @ |-> Shape_rotate(@[i], quad)],
              !.position_ = quaternionRotateVector(quad, @),
              !.orientation_ = quaternionMultiply(quad, @)]

\* Scale, then rotate, then translate; the pending transform is not reset here.
applyPendingShapeTransform(shape) ==
    LET scaled == IF next_shape_scale_ # 1
                  THEN Shape_scale(shape, next_shape_scale_) ELSE shape
        rotated == IF ~isIdentityQuaternion(next_shape_orientation_)
                   THEN Shape_rotate(scaled, next_shape_orientation_) ELSE scaled
        moved == IF next_shape_position_ # ZeroVec
                 THEN Shape_move(rotated, next_shape_position_) ELSE rotated
    IN [moved EXCEPT !.applied = NextShape]

resetPendingShapeTransform ==
    /\ next_shape_position_' = ZeroVec
    /\ next_shape_orientation_' = IdentityQuaternion
    /\ next_shape_scale_' = 1

\* The legacy loop of applyPendingTextures over pending_transforms_.
RECURSIVE ApplyPendingTransforms(_, _)
ApplyPendingTransforms(shape, transforms) ==
    IF transforms = << >> THEN shape
    ELSE LET transform == Head(transforms)
             next == IF transform.type = "Move"
                     THEN Shape_move(shape, transform.move)
                     ELSE Shape_rotate(shape, transform.rotate)
         IN ApplyPendingTransforms(next, Tail(transforms))

\* applyPendingTextures: the object after the loop over the given pending textures.
RECURSIVE applyPendingTextures(_, _)
applyPendingTextures(o, textures) ==
    IF textures = << >> THEN o
    ELSE LET tex == Head(textures)
             textured_quad == ApplyPendingTransforms(
                                  applyPendingShapeTransform(
                                      NewShape("texturedQuad", tex.wanted)),
                                  pending_transforms_)
         IN IF tex.valid
            THEN applyPendingTextures(Object_addShape(o, textured_quad), Tail(textures))
            ELSE applyPendingTextures(o, Tail(textures))

BldInit ==
    /\ object_ = [position_ |-> ZeroVec, orientation_ |-> IdentityQuaternion,
                  shapes_ |-> << >>]
    /\ next_shape_position_ = ZeroVec
    /\ next_shape_orientation_ = IdentityQuaternion
    /\ next_shape_scale_ = 1
    /\ pending_textures_ = << >>
    /\ pending_transforms_ = << >>
    /\ built = FALSE
    /\ calls = 0
    /\ intended = NoShapeTransform
    /\ lastTransform = [type |-> "none"]

\* One more call of the chain, before build().
Chained ==
    /\ ~built
    /\ calls < MaxCalls
    /\ calls' = calls + 1
    /\ built' = built

\* sphere, box, cylinder, ...: the shapes of one primitive, then the reset.
sphere ==
    /\ Chained
    /\ object_' = Object_addShape(object_,
                      applyPendingShapeTransform(NewShape("sphere", intended)))
    /\ resetPendingShapeTransform
    /\ intended' = NoShapeTransform
    /\ UNCHANGED << pending_textures_, pending_transforms_, lastTransform >>
    /\ UNCHANGED notBld

\* addShape, and points, lines, loop, polygon, which have the same body.
addShape ==
    /\ Chained
    /\ object_' = Object_addShape(object_,
                      applyPendingShapeTransform(NewShape("custom", intended)))
    /\ resetPendingShapeTransform
    /\ intended' = NoShapeTransform
    /\ UNCHANGED << pending_textures_, pending_transforms_, lastTransform >>
    /\ UNCHANGED notBld

\* texturedQuad: only remembers the texture; valid says whether the image will load.
ObjectBuilder_texturedQuad(valid) ==
    /\ Chained
    /\ pending_textures_' = Append(pending_textures_, [valid |-> valid, wanted |-> intended])
    /\ intended' = NoShapeTransform
    /\ UNCHANGED << object_, next_shape_position_, next_shape_orientation_,
                    next_shape_scale_, pending_transforms_, lastTransform >>
    /\ UNCHANGED notBld

at(position) ==
    /\ Chained
    /\ pending_transforms_' = Append(pending_transforms_,
                                     [type |-> "Move", move |-> position,
                                      rotate |-> IdentityQuaternion])
    /\ object_' = Object_move(object_, position)
    /\ lastTransform' = [type |-> "at", position |-> position]
    /\ UNCHANGED << next_shape_position_, next_shape_orientation_, next_shape_scale_,
                    pending_textures_, intended >>
    /\ UNCHANGED notBld

\* rotateX, rotateY, rotateZ, rotate: all push a Rotate and rotate the object.
rotateZ(quat) ==
    /\ Chained
    /\ pending_transforms_' = Append(pending_transforms_,
                                     [type |-> "Rotate", move |-> ZeroVec,
                                      rotate |-> quat])
    /\ object_' = Object_rotate(object_, quat)
    /\ lastTransform' = [type |-> "rotate"]
    /\ UNCHANGED << next_shape_position_, next_shape_orientation_, next_shape_scale_,
                    pending_textures_, intended >>
    /\ UNCHANGED notBld

shapeAt(position) ==
    /\ Chained
    /\ next_shape_position_' = position
    /\ intended' = [intended EXCEPT !.position = position]
    /\ UNCHANGED << object_, next_shape_orientation_, next_shape_scale_,
                    pending_textures_, pending_transforms_, lastTransform >>
    /\ UNCHANGED notBld

\* shapeRotateX, shapeRotateY, shapeRotateZ, shapeRotate.
shapeRotateZ(q) ==
    /\ Chained
    /\ next_shape_orientation_' = quaternionMultiply(next_shape_orientation_, q)
    /\ intended' = [intended EXCEPT !.orientation = quaternionMultiply(@, q)]
    /\ UNCHANGED << object_, next_shape_position_, next_shape_scale_,
                    pending_textures_, pending_transforms_, lastTransform >>
    /\ UNCHANGED notBld

shapeScale(uniform_scale) ==
    /\ Chained
    /\ next_shape_scale_' = uniform_scale
    /\ intended' = [intended EXCEPT !.scale = uniform_scale]
    /\ UNCHANGED << object_, next_shape_position_, next_shape_orientation_,
                    pending_textures_, pending_transforms_, lastTransform >>
    /\ UNCHANGED notBld

build ==
    /\ ~built
    /\ object_' = applyPendingTextures(object_, pending_textures_)
    /\ built' = TRUE
    /\ UNCHANGED << next_shape_position_, next_shape_orientation_, next_shape_scale_,
                    pending_textures_, pending_transforms_, calls, intended,
                    lastTransform >>
    /\ UNCHANGED notBld

BldNext ==
    \/ sphere
    \/ addShape
    \/ \E valid \in BOOLEAN : ObjectBuilder_texturedQuad(valid)
    \/ \E position \in BldPoints : at(position)
    \/ \E quat \in BldTurns : rotateZ(quat)
    \/ \E position \in BldPoints : shapeAt(position)
    \/ \E q \in BldTurns : shapeRotateZ(q)
    \/ \E uniform_scale \in BldScales : shapeScale(uniform_scale)
    \/ build

(***************************************************************************)
(* Part 7: the per-view display settings splitView copies                  *)
(* (src/unnamed/part_009, src/src/info_panel.cpp).                         *)
(***************************************************************************)
\* A view as its constructor leaves it: perspective, info panel hidden, grid shown.
SettingsInit ==
    /\ isPerspective_ = [v \in ViewIds |-> TRUE]
    /\ visible_ = [v \in ViewIds |-> FALSE]
    /\ showGrid_ = [v \in ViewIds |-> TRUE]

\* What the application adds while views are split: one object, one layer.
SplitSubmissions == {<<"o1", "L1">>}

toggleProjection(view) ==
    /\ container
    /\ InViews(view)
    /\ isPerspective_' = [isPerspective_ EXCEPT ![view] = ~@]
    /\ UNCHANGED << visible_, showGrid_, viewVars, sceneVars >>
    /\ UNCHANGED notSettings

\* OctoFlexView::toggleInfoPanel, that is InfoPanel::toggle.
toggleInfoPanel(view) ==
    /\ container
    /\ InViews(view)
    /\ visible_' = [visible_ EXCEPT ![view] = ~@]
    /\ UNCHANGED << isPerspective_, showGrid_, viewVars, sceneVars >>
    /\ UNCHANGED notSettings

toggleGrid(view) ==
    /\ container
    /\ InViews(view)
    /\ showGrid_' = [showGrid_ EXCEPT ![view] = ~@]
    /\ UNCHANGED << isPerspective_, visible_, viewVars, sceneVars >>
    /\ UNCHANGED notSettings

\* Views are created and split while their layers and display settings change.
SplitNext ==
    \/ \E qApp \in BOOLEAN : createEmbedded(qApp)
    \/ \E s \in SplitSubmissions : EmbeddedViewer_add(s[1], s[2])
    \/ \E view \in ViewIds : splitView(view)
    \/ \E view \in ViewIds, checked \in SUBSET LayerIds : showVisibleLayerDialog(view, checked)
    \/ \E view \in ViewIds, checked \in SUBSET LayerIds : showSelectableLayerDialog(view, checked)
    \/ \E view \in ViewIds : toggleProjection(view)
    \/ \E view \in ViewIds : toggleInfoPanel(view)
    \/ \E view \in ViewIds : toggleGrid(view)

(***************************************************************************)
(* Part 6: the EmbeddedViewer facade over a container that may be missing  *)
(* (src/src/octo_flex_viewer.cpp) and the container's recording controls   *)
(* (src/src/octo_flex_view_container.cpp).                                 *)
(***************************************************************************)
\* What decides the outcome of OctoFlexViewContainer::startRecording: the first test
\* of the call that fails, or "ok".
StartOutcomes == {"fps", "path", "size", "capture", "thread", "queue", "ok"}

\* What decides the outcome of captureRecordingFrame.
CaptureOutcomes == {"null", "full", "ok"}

NoError == ""

EmbInit ==
    /\ isRecording_ = FALSE
    /\ isRecordingPaused_ = FALSE
    /\ lastRecordingError_ = NoError
    /\ recordingThread_ = FALSE
    /\ embRet = [op |-> "none", value |-> FALSE]
    /\ nullDeref = FALSE

\* The facade call op returns value.
Returns(op, value) == embRet' = [op |-> op, value |-> value]

containerRec == << isRecording_, isRecordingPaused_, lastRecordingError_, recordingThread_ >>

\* Layer::setObjects: the map after clear() and the insertion of vec[1..n].
RECURSIVE InsertAll(_, _)
InsertAll(vec, n) ==
    IF n = 0 THEN EmptyObjects
    ELSE IF vec[n] # Null THEN [InsertAll(vec, n - 1) EXCEPT ![IdOf(vec[n])] = vec[n]]
    ELSE InsertAll(vec, n - 1)

\* EmbeddedViewer::setLayer: ObjectManager::submitLayer run to completion by the
\* calling thread.  The application hands over objects it has not submitted before.
EmbeddedViewer_setLayer(vec, layer_id) ==
    /\ viewerCreated
    /\ \A i \in DOMAIN vec : vec[i] # Null => vec[i] \in editable
    /\ IF ~obj_manager
         THEN UNCHANGED sceneVars
         ELSE /\ editable' = editable \ { vec[i] : i \in DOMAIN vec }
              /\ layers_' = layers_ \cup {layer_id}
              /\ objects_' = [objects_ EXCEPT ![layer_id] = InsertAll(vec, Len(vec))]
              /\ committed' = [committed EXCEPT ![layer_id] = objects_'[layer_id]]
              /\ UNCHANGED outdated_objects_
    /\ UNCHANGED viewVars
    /\ UNCHANGED notView

\* OctoFlexViewContainer::stopRecording after its first test, entered with
\* lastRecordingError_ = error; ok is the result of RecordingThread::stopRecording.
StopRecordingBody(ok, error) ==
    /\ lastRecordingError_' =
          IF recordingThread_ /\ ~ok /\ error = NoError THEN "stop failed" ELSE error
    /\ recordingThread_' = FALSE
    /\ isRecording_' = FALSE
    /\ isRecordingPaused_' = FALSE

OctoFlexViewContainer_startRecording(outcome) ==
    IF isRecording_
      THEN /\ lastRecordingError_' = "Recording is already running"
           /\ Returns("startRecording", FALSE)
           /\ UNCHANGED << isRecording_, isRecordingPaused_, recordingThread_ >>
    ELSE IF outcome = "fps"
      THEN /\ lastRecordingError_' = "Recording FPS must be greater than zero"
           /\ Returns("startRecording", FALSE)
           /\ UNCHANGED << isRecording_, isRecordingPaused_, recordingThread_ >>
    ELSE IF outcome = "path"
      THEN /\ lastRecordingError_' = "Recording output path is empty"
           /\ Returns("startRecording", FALSE)
           /\ UNCHANGED << isRecording_, isRecordingPaused_, recordingThread_ >>
    ELSE IF outcome = "size"
      THEN /\ lastRecordingError_' = "Container size is invalid for recording"
           /\ Returns("startRecording", FALSE)
           /\ UNCHANGED << isRecording_, isRecordingPaused_, recordingThread_ >>
    ELSE IF currentView_ = NoView
      THEN /\ lastRecordingError_' = "No active view to capture"
           /\ Returns("startRecording", FALSE)
           /\ UNCHANGED << isRecording_, isRecordingPaused_, recordingThread_ >>
    ELSE IF outcome = "capture"
      THEN /\ lastRecordingError_' = "Failed to capture initial OpenGL framebuffer"
           /\ Returns("startRecording", FALSE)
           /\ UNCHANGED << isRecording_, isRecordingPaused_, recordingThread_ >>
    ELSE IF outcome = "thread"
      THEN /\ lastRecordingError_' = "start failed"
           /\ recordingThread_' = FALSE
           /\ Returns("startRecording", FALSE)
           /\ UNCHANGED << isRecording_, isRecordingPaused_ >>
    ELSE IF outcome = "queue"
      THEN /\ lastRecordingError_' = "Failed to queue first frame"
           /\ recordingThread_' = FALSE
           /\ Returns("startRecording", FALSE)
           /\ UNCHANGED << isRecording_, isRecordingPaused_ >>
    ELSE /\ lastRecordingError_' = NoError
         /\ recordingThread_' = TRUE
         /\ isRecording_' = TRUE
         /\ isRecordingPaused_' = FALSE
         /\ Returns("startRecording", TRUE)

OctoFlexViewContainer_pauseRecording ==
    IF ~isRecording_ \/ isRecordingPaused_
      THEN /\ Returns("pauseRecording", FALSE)
           /\ UNCHANGED containerRec
      ELSE /\ isRecordingPaused_' = TRUE
           /\ Returns("pauseRecording", TRUE)
           /\ UNCHANGED << isRecording_, lastRecordingError_, recordingThread_ >>

OctoFlexViewContainer_resumeRecording ==
    IF ~isRecording_ \/ ~isRecordingPaused_
      THEN /\ Returns("resumeRecording", FALSE)
           /\ UNCHANGED containerRec
      ELSE /\ isRecordingPaused_' = FALSE
           /\ Returns("resumeRecording", TRUE)
           /\ UNCHANGED << isRecording_, lastRecordingError_, recordingThread_ >>

OctoFlexViewContainer_stopRecording(ok) ==
    IF ~isRecording_ /\ ~recordingThread_
      THEN /\ Returns("stopRecording", FALSE)
           /\ UNCHANGED containerRec
      ELSE /\ StopRecordingBody(ok, lastRecordingError_)
           /\ Returns("stopRecording", IF recordingThread_ THEN ok ELSE TRUE)

\* Every recording control of the facade tests impl_->container first.
EmbeddedViewer_startRecording(outcome) ==
    /\ viewerCreated
    /\ IF ~container
         THEN Returns("startRecording", FALSE) /\ UNCHANGED containerRec
         ELSE OctoFlexViewContainer_startRecording(outcome)
    /\ UNCHANGED << nullDeref, viewVars, sceneVars >>
    /\ UNCHANGED notEmb

EmbeddedViewer_pauseRecording ==
    /\ viewerCreated
    /\ IF ~container
         THEN Returns("pauseRecording", FALSE) /\ UNCHANGED containerRec
         ELSE OctoFlexViewContainer_pauseRecording
    /\ UNCHANGED << nullDeref, viewVars, sceneVars >>
    /\ UNCHANGED notEmb

EmbeddedViewer_resumeRecording ==
    /\ viewerCreated
    /\ IF ~container
         THEN Returns("resumeRecording", FALSE) /\ UNCHANGED containerRec
         ELSE OctoFlexViewContainer_resumeRecording
    /\ UNCHANGED << nullDeref, viewVars, sceneVars >>
    /\ UNCHANGED notEmb

\* Without the test the call reads a field of a null container: undefined behaviour.
EmbeddedViewer_stopRecording_unchecked(ok) ==
    /\ viewerCreated
    /\ IF ~container
         THEN /\ nullDeref' = TRUE
              /\ \E value \in BOOLEAN : Returns("stopRecording", value)
              /\ UNCHANGED containerRec
         ELSE OctoFlexViewContainer_stopRecording(ok) /\ UNCHANGED nullDeref
    /\ UNCHANGED << viewVars, sceneVars >>
    /\ UNCHANGED notEmb
EmbeddedViewer_stopRecording(ok) ==
    /\ viewerCreated
    /\ IF ~container
         THEN /\ nullDeref' = nullDeref
              /\ Returns("stopRecording", FALSE)
              /\ UNCHANGED containerRec
         ELSE OctoFlexViewContainer_stopRecording(ok) /\ UNCHANGED nullDeref
    /\ UNCHANGED << viewVars, sceneVars >>
    /\ UNCHANGED notEmb

EmbeddedViewer_isRecording ==
    /\ viewerCreated
    /\ Returns("isRecording", container /\ isRecording_)
    /\ UNCHANGED << containerRec, nullDeref, viewVars, sceneVars >>
    /\ UNCHANGED notEmb

EmbeddedViewer_isRecordingPaused ==
    /\ viewerCreated
    /\ Returns("isRecordingPaused", container /\ isRecordingPaused_)
    /\ UNCHANGED << containerRec, nullDeref, viewVars, sceneVars >>
    /\ UNCHANGED notEmb

EmbeddedViewer_getLastRecordingError ==
    /\ viewerCreated
    /\ Returns("getLastRecordingError",
               IF ~container THEN "Container not initialized" ELSE lastRecordingError_)
    /\ UNCHANGED << containerRec, nullDeref, viewVars, sceneVars >>
    /\ UNCHANGED notEmb

\* The recording timer fires: it runs while a recording is active and not paused.
captureRecordingFrame(outcome) ==
    /\ container
    /\ isRecording_ /\ ~isRecordingPaused_
    /\ IF currentView_ = NoView \/ outcome = "ok" \/ (outcome = "full" /\ ~recordingThread_)
         THEN UNCHANGED containerRec
         ELSE \E ok \in BOOLEAN :
                 StopRecordingBody(ok, IF outcome = "null"
                                         THEN "Failed to capture OpenGL framebuffer"
                                         ELSE "Failed to queue frame - recording queue is full")
    /\ UNCHANGED << embRet, nullDeref, viewVars, sceneVars >>
    /\ UNCHANGED notEmb

EmbNext ==
    \/ \E qApp \in BOOLEAN : createEmbedded(qApp)
    \/ \E s \in ViewSubmissions : EmbeddedViewer_add(s[1], s[2])
    \/ \E s \in LayerSubmissions : EmbeddedViewer_setLayer(s[1], s[2])
    \/ \E view \in ViewIds, mode \in SelectionModes, under \in SUBSET SceneObjects :
          mouseReleaseEvent(view, mode, under)
    \/ exportSelectedObjectIds
    \/ \E outcome \in StartOutcomes : EmbeddedViewer_startRecording(outcome)
    \/ EmbeddedViewer_pauseRecording
    \/ EmbeddedViewer_resumeRecording
    \/ \E ok \in BOOLEAN : EmbeddedViewer_stopRecording(ok)
    \/ EmbeddedViewer_isRecording
    \/ EmbeddedViewer_isRecordingPaused
    \/ EmbeddedViewer_getLastRecordingError
    \/ \E outcome \in CaptureOutcomes : captureRecordingFrame(outcome)

(***************************************************************************)
(* Part 8: the OpenGL matrix stacks of a view during a pick                *)
(* (src/unnamed/part_009: handleSelectionWithGLSelect, enterSelectMode,    *)
(* processHits, setupFixedFunctionPipeline).                               *)
(***************************************************************************)
\* Depth limits of the context's matrix stacks (GL_MAX_PROJECTION_STACK_DEPTH,
\* GL_MAX_MODELVIEW_STACK_DEPTH), scaled down.
MaxProjectionStackDepth == 2

MaxModelviewStackDepth == 3

\* Values glRenderMode(GL_RENDER) returns: -1 when the select buffer overflowed.
PickHits == {-1, 0, 1, 2}

GLInit ==
    /\ projectionStack = << "identity" >>
    /\ modelviewStack = << "identity" >>
    /\ matrixMode = "GL_MODELVIEW"
    /\ renderMode = "GL_RENDER"
    /\ nameStack = << >>
    /\ glError = "GL_NO_ERROR"
    /\ gpc = "idle"
    /\ pickHits = 0
    /\ pickMode = "POINT"
    /\ depthBefore = << 1, 1 >>

\* glLoadIdentity / glLoadMatrixf / glMultMatrixf: the top of the stack is replaced.
LoadTop(stack, matrix) == [stack EXCEPT ![Len(stack)] = matrix]

\* glPushMatrix: duplicates the top, or leaves a full stack as it is.
PushMatrix(stack, max) == IF Len(stack) < max THEN Append(stack, stack[Len(stack)]) ELSE stack

\* glPopMatrix: removes the top, or leaves a stack with one entry as it is.
PopMatrix(stack) == IF Len(stack) > 1 THEN SubSeq(stack, 1, Len(stack) - 1) ELSE stack

\* The error flag keeps the first error recorded.
RaiseError(flag, error) == IF flag = "GL_NO_ERROR" THEN error ELSE flag

\* paintGL's setupFixedFunctionPipeline: loads the projection and the view matrix.
setupFixedFunctionPipeline ==
    /\ gpc = "idle"
    /\ projectionStack' = LoadTop(projectionStack, "projection")
    /\ modelviewStack' = LoadTop(modelviewStack, "view")
    /\ matrixMode' = "GL_MODELVIEW"
    /\ UNCHANGED << renderMode, nameStack, glError, gpc, pickHits, pickMode, depthBefore >>
    /\ UNCHANGED notGL

\* handleSelectionWithGLSelect up to the end of enterSelectMode.
enterSelectMode(mode) ==
    /\ gpc = "idle"
    /\ depthBefore' = << Len(projectionStack), Len(modelviewStack) >>
    /\ pickMode' = mode
    /\ renderMode' = "GL_SELECT"
    /\ nameStack' = << 0 >>
    /\ projectionStack' =
          LoadTop(PushMatrix(projectionStack, MaxProjectionStackDepth), "pick")
    /\ modelviewStack' = LoadTop(PushMatrix(modelviewStack, MaxModelviewStackDepth), "view")
    /\ glError' =
          IF Len(projectionStack) = MaxProjectionStackDepth
             \/ Len(modelviewStack) = MaxModelviewStackDepth
            THEN RaiseError(glError, "GL_STACK_OVERFLOW") ELSE glError
    /\ matrixMode' = "GL_MODELVIEW"
    /\ gpc' = "entered"
    /\ UNCHANGED pickHits
    /\ UNCHANGED notGL

\* The render loop of handleSelectionWithGLSelect (glLoadName per object) and
\* glRenderMode(GL_RENDER), which returns the number of hit records.
renderForSelection(names, hits) ==
    /\ gpc = "entered"
    /\ hits > 0 => names > 0
    /\ nameStack' = IF names > 0 THEN LoadTop(nameStack, names) ELSE nameStack
    /\ renderMode' = "GL_RENDER"
    /\ pickHits' = hits
    /\ gpc' = "rendered"
    /\ UNCHANGED << projectionStack, modelviewStack, matrixMode, glError, pickMode,
                    depthBefore >>
    /\ UNCHANGED notGL

\* processHits: without hits it returns before the matrices are restored.
processHits ==
    /\ gpc = "rendered"
    /\ IF pickHits <= 0
         THEN UNCHANGED << projectionStack, modelviewStack, matrixMode, glError >>
         ELSE /\ projectionStack' = PopMatrix(projectionStack)
              /\ modelviewStack' = PopMatrix(modelviewStack)
              /\ glError' = IF Len(projectionStack) = 1 \/ Len(modelviewStack) = 1
                              THEN RaiseError(glError, "GL_STACK_UNDERFLOW") ELSE glError
              /\ matrixMode' = "GL_MODELVIEW"
    /\ gpc' = "idle"
    /\ UNCHANGED << renderMode, nameStack, pickHits, pickMode, depthBefore >>
    /\ UNCHANGED notGL

GLNext ==
    \/ setupFixedFunctionPipeline
    \/ \E mode \in SelectionModes : enterSelectMode(mode)
    \/ \E names \in 0 .. 2, hits \in PickHits : renderForSelection(names, hits)
    \/ processHits

(***************************************************************************)
(* Part 9: the coordinate system a view's camera is attached to            *)
(* (src/unnamed/part_009: useGlobalCoordinateSystem,                       *)
(* useObjectCoordinateSystem, updateCoordinateSystem; src/unnamed/part_004).*)
(***************************************************************************)
\* Object IDs; an ID is any string, the empty one included.
CsObjectIds == {"", "car", "robot"}

\* Positions / orientations an object can have.
Poses == {0, 1}

\* CoordinateSystem::createGlobal and createLocal.
createGlobal == [type |-> "Global", objectId |-> "", pose |-> 0]

createLocal(p, objectId) == [type |-> "Local", objectId |-> objectId, pose |-> p]

\* No coordinate system: Camera::coordSys_ is null.
NoCoordSys == [type |-> "none", objectId |-> "", pose |-> 0]

CSInit ==
    /\ obj_mgr_ = FALSE
    /\ found = {}
    /\ pose = [id \in CsObjectIds |-> 0]
    /\ coordSys_ = NoCoordSys
    /\ rollEnabled = FALSE
    /\ lastCall = [op |-> "none", arg |-> "", before |-> NoCoordSys]

Called(op, arg) == lastCall' = [op |-> op, arg |-> arg, before |-> coordSys_]

OctoFlexView_setObjectManager ==
    /\ ~obj_mgr_
    /\ obj_mgr_' = TRUE
    /\ Called("setObjectManager", "")
    /\ UNCHANGED << found, pose, coordSys_, rollEnabled >>
    /\ UNCHANGED notCS

\* The application submits an object with this ID and pose (a new ID, or a new object
\* for an ID already present).
objectSubmitted(id, p) ==
    /\ obj_mgr_
    /\ id \notin found \/ pose[id] # p
    /\ found' = found \cup {id}
    /\ pose' = [pose EXCEPT ![id] = p]
    /\ Called("submit", id)
    /\ UNCHANGED << obj_mgr_, coordSys_, rollEnabled >>
    /\ UNCHANGED notCS

\* The application replaces the layer by one without the object (submitLayer).
objectRemoved(id) ==
    /\ obj_mgr_
    /\ id \in found
    /\ found' = found \ {id}
    /\ Called("submitLayer", id)
    /\ UNCHANGED << obj_mgr_, pose, coordSys_, rollEnabled >>
    /\ UNCHANGED notCS

useGlobalCoordinateSystem ==
    /\ coordSys_ # createGlobal \/ rollEnabled
    /\ coordSys_' = createGlobal
    /\ rollEnabled' = FALSE
    /\ Called("useGlobalCoordinateSystem", "")
    /\ UNCHANGED << obj_mgr_, found, pose >>
    /\ UNCHANGED notCS

useObjectCoordinateSystem(objectId) ==
    /\ IF ~obj_mgr_ \/ objectId \notin found
         THEN UNCHANGED << coordSys_, rollEnabled >>
         ELSE /\ coordSys_' = createLocal(pose[objectId], objectId)
              /\ rollEnabled' = TRUE
    /\ Called("useObjectCoordinateSystem", objectId)
    /\ UNCHANGED << obj_mgr_, found, pose >>
    /\ UNCHANGED notCS

\* paintGL begins with updateCoordinateSystem.
updateCoordinateSystem ==
    /\ IF coordSys_.type # "Local" THEN UNCHANGED << coordSys_, rollEnabled >>
       ELSE IF coordSys_.objectId = "" THEN UNCHANGED << coordSys_, rollEnabled >>
       ELSE IF ~obj_mgr_ THEN UNCHANGED << coordSys_, rollEnabled >>
       ELSE IF coordSys_.objectId \notin found
         THEN /\ coordSys_' = createGlobal
              /\ rollEnabled' = FALSE
         ELSE /\ coordSys_' = [coordSys_ EXCEPT !.pose = pose[coordSys_.objectId]]
              /\ UNCHANGED rollEnabled
    /\ Called("paintGL", "")
    /\ UNCHANGED << obj_mgr_, found, pose >>
    /\ UNCHANGED notCS

CSNext ==
    \/ OctoFlexView_setObjectManager
    \/ \E id \in CsObjectIds, p \in Poses : objectSubmitted(id, p)
    \/ \E id \in CsObjectIds : objectRemoved(id)
    \/ useGlobalCoordinateSystem
    \/ \E objectId \in CsObjectIds : useObjectCoordinateSystem(objectId)
    \/ updateCoordinateSystem

(***************************************************************************)
(* Specifications: each part runs with the other parts at rest.            *)
(***************************************************************************)
vars == << omVars, recVars, viewVars, texVars, bldVars, embVars, settingsVars, glVars,
          csVars >>

Init == OMInit /\ RecInit /\ ViewInit /\ TexInit /\ BldInit /\ EmbInit /\ SettingsInit /\ GLInit
        /\ CSInit

SpecOM == Init /\ [][OMNext]_vars

SpecRec == Init /\ [][RecNext]_vars

SpecView == Init /\ [][ViewNext]_vars

SpecPick == Init /\ [][PickNext]_vars

SpecTex == Init /\ [][TexNext]_vars

SpecBld == Init /\ [][BldNext]_vars

SpecEmb == Init /\ [][EmbNext]_vars

SpecSplit == Init /\ [][SplitNext]_vars

SpecGL == Init /\ [][GLNext]_vars

SpecCS == Init /\ [][CSNext]_vars

(***************************************************************************)
(* Properties of the ObjectManager / Layer part.                           *)
(***************************************************************************)
\* Thread t is between the lock and the unlock of ObjectManager::mtx_.
InManagerSection(t) ==
    pc[t] \in {"foal_body", "fo_iter", "lf_lock", "lf_find", "fl_body", "ly_body",
               "co_iter", "cl_lock", "cl_swap"}
\* Thread t is between the lock and the unlock of the Layer::mtx_ of layer cur[t].
InLayerSection(t) ==
    pc[t] \in {"ao_find", "ao_assign", "so_clear", "so_loop", "lf_find", "ob_copy", "cl_swap"}

\* C1: every access to the manager's layer map and to a layer's object map is made
\* with the corresponding mutex held, and no two threads are inside the critical
\* sections of the same mutex at the same time.
C1_ThreadSafe ==
    /\ \A t \in Threads : InManagerSection(t) => mtx_
    /\ \A t \in Threads : InLayerSection(t) => lmtx[cur[t]]
    /\ \A t1, t2 \in Threads :
         t1 # t2 =>
           /\ ~(InManagerSection(t1) /\ InManagerSection(t2))
           /\ ~(InLayerSection(t1) /\ InLayerSection(t2) /\ cur[t1] = cur[t2])

\* A thread is half-way through setObjects while another one is blocked in addObject
\* on the same layer.
C1_Witness ==
    \E t1, t2 \in Threads :
        /\ pc[t1] = "so_loop" /\ idx[t1] = 2
        /\ pc[t2] = "ao_lock" /\ cur[t2] = cur[t1]
        /\ objects_[cur[t1]] # committed[cur[t1]]

\* C2: a reader of a layer (Layer::objects, Layer::findObject) only ever sees the
\* object set as the last completed update left it, never the cleared or the
\* half-filled map of a setObjects in progress.
C2_AtomicReplace ==
    \A t \in Threads :
        pc[t] \in {"ob_copy", "lf_find"} => objects_[cur[t]] = committed[cur[t]]

\* A reader holds a non-empty layer while a submitLayer on that layer waits for the lock.
C2_Witness ==
    \E t1, t2 \in Threads :
        /\ pc[t1] = "ob_copy"
        /\ pc[t2] = "so_lock" /\ cur[t2] = cur[t1]
        /\ objects_[cur[t1]] # EmptyObjects

\* The map setObjects has to produce from a vector: for every ID the last non-null
\* object of the vector with that ID, and no entry for any other ID.
RECURSIVE LastWithId(_, _, _)
LastWithId(vec, k, n) ==
    IF n = 0 THEN Null
    ELSE IF vec[n] # Null /\ IdOf(vec[n]) = k THEN vec[n]
    ELSE LastWithId(vec, k, n - 1)

ExpectedObjects(vec) == [k \in ObjectIds |-> LastWithId(vec, k, Len(vec))]

\* Thread t takes the step.
Moves(t) == << pc[t], idx[t], call[t], cur[t] >>' # << pc[t], idx[t], call[t], cur[t] >>

\* C6: when setLayer / submitLayer has filled the layer (just before it unlocks and
\* returns) the layer holds exactly the non-null objects of the vector, one entry per
\* object ID (the last object of the vector for an ID given twice) and nothing of its
\* previous content; no step of the call changes another layer.
C6_SetLayerReplaces ==
    /\ [](\A t \in Threads :
            (pc[t] = "so_loop" /\ idx[t] > Len(call[t].vec))
               => objects_[cur[t]] = ExpectedObjects(call[t].vec))
    /\ [][\A t \in Threads :
            (call[t].op = "submitLayer" /\ Moves(t))
               => \A l \in LayerIds \ {call[t].layer} :
                    /\ objects_'[l] = objects_[l]
                    /\ outdated_objects_'[l] = outdated_objects_[l]
                    /\ (l \in layers_') = (l \in layers_)]_vars

\* setLayer(<<null, o1, o2>>) has finished on a layer that held o3 before.
C6_Witness ==
    \E t \in Threads :
        /\ pc[t] = "so_loop" /\ idx[t] > Len(call[t].vec)
        /\ call[t].vec = << Null, "o1", "o2" >>
        /\ committed[cur[t]]["b"] = "o3"
        /\ objects_[cur[t]]["a"] = "o2" /\ objects_[cur[t]]["b"] = Null

(***************************************************************************)
(* Properties of the RecordingThread part.                                 *)
(***************************************************************************)
\* Number of places of sequence q that hold f.
Occurrences(f, q) == Cardinality({ i \in 1..Len(q) : q[i] = f })

\* C3: whenever stopRecording has returned true, every frame queueFrame accepted has
\* been written to the encoder and none was taken out of the queue unwritten.
\* (Violated: after a stopRecording that timed out, the next stopRecording, such as
\* the one ~RecordingThread issues, finds lastError_ empty and returns true.)
C3_StopTrueAllWritten ==
    stopRet = "true" =>
        \A i \in 1..Len(accepted) :
            /\ Occurrences(accepted[i], written) = 1
            /\ Occurrences(accepted[i], dropped) = 0
            /\ Occurrences(accepted[i], frameQueue_) = 0


C5_QueueBounded == Len(frameQueue_) <= MaxQueueSize

\* queueFrame tests the capacity of a full queue while the worker is running.
C5_Witness ==
    /\ cpc = "qf_body"
    /\ Len(frameQueue_) = MaxQueueSize
    /\ wpc = "pf_lock"

(***************************************************************************)
(* Properties of the views.                                                *)
(***************************************************************************)
\* Some object with this ID lies under the cursor in a layer that the view neither
\* hides nor marks unselectable.
PickableHit(view, under, id) ==
    \E p \in under : /\ p[2] = id
                     /\ p[1] \notin unvisable_layers_[view]
                     /\ p[1] \notin unselectable_layers_[view]

\* C7: a point or rectangle pick in a view changes the selection state of an object
\* ID only when an object with that ID lies under the cursor in a layer that the view
\* neither hides nor marks unselectable; hits in hidden or unselectable layers never
\* select or deselect anything.
C7_PickIgnoresFilteredLayers ==
    [][\A view \in ViewIds :
          selectedObjects_'[view] # selectedObjects_[view] =>
             \A mode \in SelectionModes, under \in SUBSET SceneObjects :
                mouseReleaseEvent(view, mode, under) =>
                   \A id \in ObjectIds :
                      ((id \in selectedObjects_'[view]) # (id \in selectedObjects_[view]))
                         => PickableHit(view, under, id)]_vars

\* A pick changed the selection of a view while an object of a layer the view hides or
\* marks unselectable was under the cursor, and that object's ID stayed unselected.
C7_Witness ==
    /\ ignoredHit
    /\ \E view \in ViewIds :
          /\ views_ = << view >>
          /\ unselectable_layers_[view] = {"L1"}
          /\ objects_["L1"]["b"] = "o3"
          /\ objects_["L2"]["a"] = "o2"
          /\ selectedObjects_[view] = {"a"}

C9_CancelStopsUpload ==
    /\ [][\A c \in TexThreads, shape \in TexShapes :
            cancelTextureUpload(c, shape) => EntriesOf(shape, uploadQueue_') = 0]_vars
    /\ [][run_upload => texturedQuad \notin cancelled]_vars

\* At most one thread is inside the critical section of queueTextureForUpload.
OneEnqueuer == Cardinality({ c \in TexThreads : tpc[c] = "q_enqueue" }) <= 1

\* C10: while the manager has not been told to quit, whatever the interleaving of
\* queueTextureForUpload, cancelTextureUpload, getQueueSize and the upload thread,
\* the queue holds exactly the entries that were enqueued and neither dequeued by
\* the upload thread nor erased by a cancel: no entry is lost or duplicated, and at
\* most one thread is inside the enqueue's critical section, holding the mutex.
C10_QueueIntact ==
    /\ OneEnqueuer
    /\ \A c \in TexThreads : tpc[c] = "q_enqueue" => mutex_
    /\ ~shouldQuit_ =>
          \A s \in TexShapes :
             EntriesOf(s, uploadQueue_) + dequeued[s] + erased[s] = enqueued[s]
    /\ queueSizeRet <= SumOver(enqueued, TexShapes)

\* One thread is inside the enqueue while the other waits for the mutex, after the
\* upload thread has dequeued an entry, a cancel has run and getQueueSize has seen an
\* entry in the queue.
C10_Witness ==
    /\ ~shouldQuit_
    /\ tpc["c1"] = "q_enqueue"
    /\ tpc["c2"] = "q_lock"
    /\ SumOver(dequeued, TexShapes) >= 1
    /\ cancelled # {}
    /\ queueSizeRet >= 1

(***************************************************************************)
(* Properties of the ObjectBuilder part.                                   *)
(***************************************************************************)
\* C11: a shape-level transform applies to the next shape added and only to it:
\* every shape of the object, whichever call added it (primitive, addShape or
\* texturedQuad), was transformed by exactly the shape-level transform requested
\* between the previous shape-adding call and its own.
C11_ShapeTransformNextShapeOnly ==
    \A i \in DOMAIN object_.shapes_ :
        object_.shapes_[i].applied = object_.shapes_[i].wanted

\* C12: when the last object-level transformation call of the chain is at(p),
\* the object build() returns has position() = p.
C12_AtSetsPosition ==
    (built /\ lastTransform.type = "at") => object_.position_ = lastTransform.position

(***************************************************************************)
(* Properties of the EmbeddedViewer facade.                                *)
(***************************************************************************)
\* The recording controls of the facade that return bool.
RecordingControls == {"startRecording", "pauseRecording", "resumeRecording", "stopRecording"}

\* C13: a viewer that createEmbedded returned without a QApplication has neither
\* container nor object manager, and every later call on it fails safely: no null
\* pointer is dereferenced, add and setLayer leave the scene and the objects as they
\* were, every recording control returns false, isRecording (and isRecordingPaused) is
\* false, exportSelectedObjectIds is empty and getLastRecordingError returns
\* 'Container not initialized'.
C13_NoQApplicationFailsSafely ==
    (viewerCreated /\ views_ = << >>) =>
        /\ ~container /\ ~obj_manager
        /\ ~nullDeref
        /\ layers_ = {} /\ editable = ObjPtrs
        /\ objects_ = [l \in LayerIds |-> EmptyObjects]
        /\ outdated_objects_ = [l \in LayerIds |-> << >>]
        /\ embRet.op \in RecordingControls \cup {"isRecording", "isRecordingPaused"}
              => embRet.value = FALSE
        /\ embRet.op = "getLastRecordingError" => embRet.value = "Container not initialized"
        /\ exportRet = << >>
        /\ ~isRecording_ /\ ~recordingThread_

\* A viewer without container on which stopRecording has just returned.
C13_Witness ==
    /\ viewerCreated /\ ~container /\ ~obj_manager
    /\ embRet = [op |-> "stopRecording", value |-> FALSE]

(***************************************************************************)
(* Properties of clearOutdatedObjects.                                     *)
(***************************************************************************)
\* Object o is stored in the object map of some layer.
LiveInLayer(o) == \E l \in layers_ : \E k \in ObjectIds : objects_[l][k] = o

\* C14: clearOutdatedObjects never releases the GPU resources of an object that is
\* currently stored in a layer: when a thread has collected all_outdated and enters
\* the release loop, none of the collected objects is in a layer's object map.
C14_ReleasedNotLive ==
    \A t \in Threads :
        (pc[t] = "co_iter" /\ todo[t] = {})
            => \A i \in DOMAIN acc[t] : ~LiveInLayer(acc[t][i])

(***************************************************************************)
(* Properties of RecordingThread::startRecording and of the frame order.   *)
(***************************************************************************)
\* VideoRecorder::start has failed in the worker.
StartFailed == lastError_ = "start"

\* C15: startRecording returns true only if the encoder process was started in the
\* worker: when VideoRecorder::start has failed, startRecording has not returned true
\* and does not return true, however the wait loop interleaves with the worker.
C15_StartTrueOnlyIfStarted == StartFailed => startRet # "true"

\* The place of frame x in the sequence seq.
IndexIn(seq, x) == CHOOSE j \in DOMAIN seq : seq[j] = x

\* C16: frames are piped to the encoder in the order in which queueFrame accepted
\* them, and each accepted frame is written at most once: every written frame was
\* accepted, and written frames follow one another as they do in the accepted order.
C16_WrittenInAcceptedOrder ==
    /\ \A i \in DOMAIN written : \E j \in DOMAIN accepted : accepted[j] = written[i]
    /\ \A i, k \in DOMAIN written :
          i < k => IndexIn(accepted, written[i]) < IndexIn(accepted, written[k])

\* Three frames were accepted and the worker has written two of them.
C16_Witness == Len(accepted) >= 3 /\ Len(written) >= 2

(***************************************************************************)
(* Properties of splitView.                                                *)
(***************************************************************************)
\* C17: a successful split adds exactly one view to the container, makes the new view
\* the current view, and gives it the source view's hidden-layer set,
\* unselectable-layer set, projection mode, info-panel visibility and grid visibility.
C17_SplitCopiesSettings ==
    [][ Len(views_') > Len(views_) /\ views_ # << >> =>
          \E view \in ViewIds :
             LET newView == views_'[Len(views_')]
             IN  /\ InViews(view)
                 /\ views_' = Append(views_, newView)
                 /\ ~InViews(newView)
                 /\ currentView_' = newView
                 /\ unvisable_layers_'[newView] = unvisable_layers_[view]
                 /\ unselectable_layers_'[newView] = unselectable_layers_[view]
                 /\ isPerspective_'[newView] = isPerspective_[view]
                 /\ visible_'[newView] = visible_[view]
                 /\ showGrid_'[newView] = showGrid_[view] ]_vars

\* The second view exists, is current and has, like the first one, settings that
\* differ from those of a fresh view.
C17_Witness ==
    /\ views_ = <<1, 2>> /\ currentView_ = 2
    /\ unvisable_layers_[2] = {"L1"} /\ unvisable_layers_[1] = {"L1"}
    /\ unselectable_layers_[2] = {"L1"} /\ unselectable_layers_[1] = {"L1"}
    /\ ~isPerspective_[2] /\ ~isPerspective_[1]
    /\ visible_[2] /\ visible_[1]
    /\ ~showGrid_[2] /\ ~showGrid_[1]

(***************************************************************************)
(* Properties of the pick's matrix stacks.                                 *)
(***************************************************************************)
\* C18: each pick leaves the projection and the model-view matrix stack at the depth
\* they had before the pick, also when the pick produces no hit: whenever no pick is
\* running, the depths are those recorded when the last pick began.
C18_PickRestoresStackDepth ==
    gpc = "idle" => << Len(projectionStack), Len(modelviewStack) >> = depthBefore

(***************************************************************************)
(* Properties of the coordinate system of a view.                          *)
(***************************************************************************)
\* C19: a view attached to an object through useObjectCoordinateSystem switches to the
\* global coordinate system at the repaint that no longer finds the object, so that
\* after every repaint the view is attached to an object only if that object exists;
\* and useObjectCoordinateSystem with an ID that is not found leaves the coordinate
\* system as it was.
C19_AttachedOnlyToExistingObject ==
    /\ (lastCall.op = "paintGL" /\ coordSys_.type = "Local") => coordSys_.objectId \in found
    /\ (lastCall.op = "useObjectCoordinateSystem" /\ lastCall.arg \notin found)
          => coordSys_ = lastCall.before

=============================================================================
